---- MODULE Spec2Model ----
(***************************************************************************)
(* CollabDocs: the OT engine (otService), the socket handlers of one       *)
(* document room (documentHandler), the Redis fan-out (realtimeService),   *)
(* the permission service and the client send queue (useDocument).         *)
(*                                                                         *)
(* One document is modelled.  Text is a sequence of one-character strings. *)
(* Every `await` of a handler is a point where other handlers may run: a   *)
(* handler is a record in `handlers` whose pc names the await it is        *)
(* suspended at.  The store answers a read at the instant the awaiting     *)
(* handler resumes; a write is a step of its own, followed by the          *)
(* handler's continuation.                                                 *)
(***************************************************************************)
EXTENDS Integers, Sequences, FiniteSets, TLC

\* ------------------------------------------------------------------ bounds
\* user edits typed over all clients
MaxEdits == 2
\* characters typed over all clients when the users only type
MaxTyped == 3
\* connection losses over all clients
MaxDrops == 1
\* calls of the share route
MaxShares == 1
\* operations an operation is transformed against in one processOperation call
MaxFold == 2
\* the clocks go on in steps of TickMs, up to MaxClock ms
TickMs == 20
MaxClock == 60

\* ------------------------------------------------------- program constants
MAX_BUFFER_SIZE == 200
MAX_HISTORY_SIZE == 50
CURSOR_THROTTLE_MS == 50

\* --------------------------------------------------------------- universe
Clients == {"c1", "c2"}
Instances == {"i1", "i2"}
Users == {"u1", "u2"}
Channels == {"doc", "presence"}
\* the user a client authenticated as at the handshake (socket.user)
UserOf(c) == IF c = "c1" THEN "u1" ELSE "u2"
\* the character a client types
CharOf(c) == IF c = "c1" THEN "a" ELSE "b"
\* lengths of the deletions a user makes
DelLengths == {1, 2}
DocOwner == "u1"
InitContent == <<"x", "y">>
ShareRoles == {"editor", "commenter", "viewer"}

Min(a, b) == IF a <= b THEN a ELSE b
Max(a, b) == IF a >= b THEN a ELSE b

\* the value of an absent operation / document reference
NoOp == [type |-> "none", position |-> 0, text |-> <<>>, length |-> 0,
         baseVersion |-> 0, id |-> 0]
NoDoc == [content |-> <<>>, version |-> 0, ids |-> {}]

\* ---------------------------------------------------------------- otService
\* s.slice(from, to) of a JavaScript string, 0-based; a negative index counts
\* from the end of the string
Slice(s, from, to) ==
  LET Index(k) == IF k < 0 THEN Max(Len(s) + k, 0) ELSE Min(k, Len(s))
  IN SubSeq(s, Index(from) + 1, Index(to))

\* transformOperation with an operation the cases do not cover turned into a noop
transformUnknownToNoop(opA, opB) ==
  IF opA.type = "insert" /\ opB.type = "insert"
  THEN IF opB.position <= opA.position
       THEN [opA EXCEPT !.position = @ + Len(opB.text)]
       ELSE opA
  ELSE IF opA.type = "insert" /\ opB.type = "delete"
  THEN IF opB.position < opA.position
       THEN [opA EXCEPT !.position = @ - Min(opB.length, opA.position - opB.position)]
       ELSE opA
  ELSE IF opA.type = "delete" /\ opB.type = "insert"
  THEN IF opB.position <= opA.position
       THEN [opA EXCEPT !.position = @ + Len(opB.text)]
       ELSE opA
  ELSE IF opA.type = "delete" /\ opB.type = "delete"
  THEN IF opB.position >= opA.position + opA.length
       THEN opA
       ELSE IF opB.position + opB.length <= opA.position
       THEN [opA EXCEPT !.position = @ - opB.length]
       ELSE LET overlapStart == Max(opA.position, opB.position)
                overlapEnd == Min(opA.position + opA.length, opB.position + opB.length)
                overlapLength == Max(0, overlapEnd - overlapStart)
                newLength == opA.length - overlapLength
                newPosition == Min(opA.position, opB.position)
            IN IF newLength <= 0
               THEN [opA EXCEPT !.position = newPosition, !.length = 0, !.type = "noop"]
               ELSE [opA EXCEPT !.position = newPosition, !.length = newLength]
  ELSE [opA EXCEPT !.type = "noop", !.length = 0]

\* transformOperation with the insert/insert tie left to opA
transformTieKeepsA(opA, opB) ==
  IF opA.type = "insert" /\ opB.type = "insert"
  THEN IF opB.position < opA.position
       THEN [opA EXCEPT !.position = @ + Len(opB.text)]
       ELSE opA
  ELSE IF opA.type = "insert" /\ opB.type = "delete"
  THEN IF opB.position < opA.position
       THEN [opA EXCEPT !.position = @ - Min(opB.length, opA.position - opB.position)]
       ELSE opA
  ELSE IF opA.type = "delete" /\ opB.type = "insert"
  THEN IF opB.position <= opA.position
       THEN [opA EXCEPT !.position = @ + Len(opB.text)]
       ELSE opA
  ELSE IF opA.type = "delete" /\ opB.type = "delete"
  THEN IF opB.position >= opA.position + opA.length
       THEN opA
       ELSE IF opB.position + opB.length <= opA.position
       THEN [opA EXCEPT !.position = @ - opB.length]
       ELSE LET overlapStart == Max(opA.position, opB.position)
                overlapEnd == Min(opA.position + opA.length, opB.position + opB.length)
                overlapLength == Max(0, overlapEnd - overlapStart)
                newLength == opA.length - overlapLength
                newPosition == Min(opA.position, opB.position)
            IN IF newLength <= 0
               THEN [opA EXCEPT !.position = newPosition, !.length = 0, !.type = "noop"]
               ELSE [opA EXCEPT !.position = newPosition, !.length = newLength]
  ELSE opA

\* transformOperation with an insert moved back by the whole deleted length
transformInsertFullShift(opA, opB) ==
  IF opA.type = "insert" /\ opB.type = "insert"
  THEN IF opB.position <= opA.position
       THEN [opA EXCEPT !.position = @ + Len(opB.text)]
       ELSE opA
  ELSE IF opA.type = "insert" /\ opB.type = "delete"
  THEN IF opB.position < opA.position
       THEN [opA EXCEPT !.position = @ - opB.length]
       ELSE opA
  ELSE IF opA.type = "delete" /\ opB.type = "insert"
  THEN IF opB.position <= opA.position
       THEN [opA EXCEPT !.position = @ + Len(opB.text)]
       ELSE opA
  ELSE IF opA.type = "delete" /\ opB.type = "delete"
  THEN IF opB.position >= opA.position + opA.length
       THEN opA
       ELSE IF opB.position + opB.length <= opA.position
       THEN [opA EXCEPT !.position = @ - opB.length]
       ELSE LET overlapStart == Max(opA.position, opB.position)
                overlapEnd == Min(opA.position + opA.length, opB.position + opB.length)
                overlapLength == Max(0, overlapEnd - overlapStart)
                newLength == opA.length - overlapLength
                newPosition == Min(opA.position, opB.position)
            IN IF newLength <= 0
               THEN [opA EXCEPT !.position = newPosition, !.length = 0, !.type = "noop"]
               ELSE [opA EXCEPT !.position = newPosition, !.length = newLength]
  ELSE opA

\* opA adjusted for opB having happened first
transformOperation(opA, opB) ==
  IF opA.type = "insert" /\ opB.type = "insert"
  THEN IF opB.position <= opA.position
       THEN [opA EXCEPT !.position = @ + Len(opB.text)]
       ELSE opA
  ELSE IF opA.type = "insert" /\ opB.type = "delete"
  THEN IF opB.position < opA.position
       THEN [opA EXCEPT !.position = @ - Min(opB.length, opA.position - opB.position)]
       ELSE opA
  ELSE IF opA.type = "delete" /\ opB.type = "insert"
  THEN IF opB.position <= opA.position
       THEN [opA EXCEPT !.position = @ + Len(opB.text)]
       ELSE opA
  ELSE IF opA.type = "delete" /\ opB.type = "delete"
  THEN IF opB.position >= opA.position + opA.length
       THEN opA
       ELSE IF opB.position + opB.length <= opA.position
       THEN [opA EXCEPT !.position = @ - opB.length]
       ELSE LET overlapStart == Max(opA.position, opB.position)
                overlapEnd == Min(opA.position + opA.length, opB.position + opB.length)
                overlapLength == Max(0, overlapEnd - overlapStart)
                newLength == opA.length - overlapLength
                newPosition == Min(opA.position, opB.position)
            IN IF newLength <= 0
               THEN [opA EXCEPT !.position = newPosition, !.length = 0, !.type = "noop"]
               ELSE [opA EXCEPT !.position = newPosition, !.length = newLength]
  ELSE opA

\* the content after an operation (unknown types leave it as it is)
applyOperation(content, operation) ==
  IF operation.type = "noop" THEN content
  ELSE IF operation.type = "insert"
  THEN LET pos == Min(Max(0, operation.position), Len(content))
       IN Slice(content, 0, pos) \o operation.text \o Slice(content, pos, Len(content))
  ELSE IF operation.type = "delete"
  THEN LET pos == Min(Max(0, operation.position), Len(content))
           end == Min(pos + operation.length, Len(content))
       IN Slice(content, 0, pos) \o Slice(content, end, Len(content))
  ELSE content

\* buffer.filter((entry) => entry.version > baseVersion)
MissedOps(buffer, baseVersion) == SelectSeq(buffer, LAMBDA entry : entry.version > baseVersion)

\* the loop of processOperation over the missed operations; it stops at a noop.
\* Returns the operation and the ids of the entries it was transformed against.
RECURSIVE FoldTransform(_, _, _)
FoldTransform(op, missed, against) ==
  IF missed = <<>> \/ op.type = "noop"
  THEN [op |-> op, against |-> against]
  ELSE FoldTransform(transformOperation(op, Head(missed).operation), Tail(missed),
                     against \cup {Head(missed).operation.id})

\* buffer.push(entry), then splice down to the newest MAX_BUFFER_SIZE entries
PushBuffer(buffer, entry) ==
  LET b == Append(buffer, entry)
  IN IF Len(b) > MAX_BUFFER_SIZE THEN SubSeq(b, Len(b) - MAX_BUFFER_SIZE + 1, Len(b)) ELSE b

\* ------------------------------------------------------------ Document model
\* versionHistory after pushVersionSnapshot: the newest MAX_HISTORY_SIZE entries
pushVersionSnapshot(history, entry) ==
  LET h == Append(history, entry)
  IN IF Len(h) > MAX_HISTORY_SIZE THEN SubSeq(h, Len(h) - MAX_HISTORY_SIZE + 1, Len(h)) ELSE h

\* ------------------------------------------------------- permissionService
EDIT_ROLES == {"owner", "editor"}
READ_ROLES == {"owner", "editor", "commenter", "viewer"}

\* a role resolution that looks at the share entries only
getShareRole(doc, userId) ==
  IF userId \in DOMAIN doc.sharedWith THEN doc.sharedWith[userId] ELSE "none"

\* "none" stands for null
getUserRole(doc, userId) ==
  IF doc.owner = userId THEN "owner"
  ELSE IF userId \in DOMAIN doc.sharedWith THEN doc.sharedWith[userId]
  ELSE "none"

canRead(doc, userId) == getUserRole(doc, userId) # "none" /\ getUserRole(doc, userId) \in READ_ROLES
canEdit(doc, userId) == getUserRole(doc, userId) # "none" /\ getUserRole(doc, userId) \in EDIT_ROLES

\* a getDocumentWithAccess that lets a user without a role pass
getDocumentUnchecked(found, userId, requiredLevel) ==
  IF found = {} THEN [status |-> 404, role |-> "none"]
  ELSE [status |-> 200, role |-> getUserRole(CHOOSE d \in found : TRUE, userId)]

\* getDocumentWithAccess on the answer of Document.findById (the set of the
\* records found, empty for null): the document and the role, or the status of
\* the error thrown
getDocumentWithAccess(found, userId, requiredLevel) ==
  IF found = {} THEN [status |-> 404, role |-> "none"]
  ELSE LET doc == CHOOSE d \in found : TRUE
           r == getUserRole(doc, userId)
       IN IF r = "none" THEN [status |-> 403, role |-> "none"]
          ELSE IF requiredLevel = "edit" /\ r \notin EDIT_ROLES THEN [status |-> 403, role |-> "none"]
          ELSE IF requiredLevel = "owner" /\ r # "owner" THEN [status |-> 403, role |-> "none"]
          ELSE [status |-> 200, role |-> r]

\* ------------------------------------------------------------------- state
VARIABLES
  \* the document store and Redis
  document,             \* the Document record
  presence,             \* users with a presence:<doc>:<user> key
  pubq,                 \* per instance: publish commands sent on pubClient, not yet at Redis
  busq,                 \* per instance: messages Redis has sent to subClient, not yet handled
  redisListeners,       \* per instance and channel: message listeners registered on subClient
  \* one server process per instance
  activeSubscriptions,  \* realtimeService.activeSubscriptions
  activeUsers,          \* documentHandler.activeUsers.get(doc): [present, gen, members]
  orphanUsers,          \* generations of user maps deleted from activeUsers while non-empty
  operationBuffers,     \* otService.operationBuffers.get(doc): [present, gen, entries]
  rooms,                \* sockets in the socket.io room doc:<doc>
  sockDocId,            \* sockets whose socket.documentId is set
  liveSocks,            \* sockets the server holds as connected
  handlers,             \* the event handlers suspended at an await
  \* one useDocument hook and socket.io client per client
  inst,                 \* the instance the client's connections reach
  connected, epoch,     \* socket.connected, and the number of the connection
  content, version, role, sendQueue, inflightOp,
  sendBuffer,           \* operations emitted while disconnected (socket.io sendBuffer)
  inbox,                \* events the server emitted to the connection, not yet handled
  \* history, kept to state the properties
  budget,               \* edits typed, connections lost, share calls made
  applied,              \* per client: ids of the operations in its local content
  opSeen,               \* per operation id: applied[c] when the user typed it
  unacked,              \* per client: ids of operations sent and not acknowledged
  ackLog,               \* the operation_ack events emitted
  procLog,              \* per processOperation call: what it was transformed against
  savedLog,             \* the (version, id) pairs written by save()
  obs,                  \* per client: the versions its session has been sent
  \* the cursor throttle of documentHandler
  now,                  \* Date.now() of the server processes, in ms
  lastCursorUpdate,     \* per instance: lastCursorUpdate.get(doc:user), 0 for no entry
  cursorLog             \* history: the cursor_move events broadcast as cursor_moved, the
                        \* sockets they went to, and whether the sender was in the room

storeVars == <<document, presence, pubq, busq, redisListeners>>
srvVars == <<activeSubscriptions, activeUsers, orphanUsers, operationBuffers, rooms,
             sockDocId, liveSocks, handlers>>
hookVars == <<content, version, role, sendQueue, inflightOp, sendBuffer>>
logVars == <<ackLog, procLog, savedLog>>
vars == <<document, presence, pubq, busq, redisListeners,
          activeSubscriptions, activeUsers, orphanUsers, operationBuffers, rooms,
          sockDocId, liveSocks, handlers,
          inst, connected, epoch, content, version, role, sendQueue, inflightOp,
          sendBuffer, inbox,
          budget, applied, opSeen, unacked, ackLog, procLog, savedLog, obs,
          now, lastCursorUpdate, cursorLog>>
cursorVars == <<now, lastCursorUpdate, cursorLog>>

\* the answer of Document.findById: the records found, none for null
findById == IF document.exists THEN {document} ELSE {}

OpIds == 1..Max(MaxEdits, MaxTyped)
Sock(c, e) == [c |-> c, e |-> e]
CurSock(c) == Sock(c, epoch[c])
\* the socket is the client's present connection: what is emitted to it arrives
Reaches(s) == s \in liveSocks /\ connected[s.c] /\ epoch[s.c] = s.e

\* stateId: the last operation typed before the hook last handled document_state;
\* cleared: the operations that call of onDocumentState dropped;
\* queuedAt: for each operation of sendQueue the version known when it was
\* enqueued; enqAt: the same for the operation in flight
NewObs == [last |-> 0, mono |-> TRUE, lastAck |-> 0, ackInc |-> TRUE,
           stateId |-> 0, cleared |-> 0, queuedAt |-> <<>>, enqAt |-> 0]

Handler(kind, sock, pc, op) ==
  [kind |-> kind, sock |-> sock, pc |-> pc, op |-> op, tOp |-> NoOp, doc |-> NoDoc,
   snap |-> NoDoc, bufGen |-> 0, usersGen |-> 0, role |-> "none"]

Init ==
  /\ document = [content |-> InitContent, version |-> 1, ids |-> {}, versionHistory |-> <<>>, exists |-> TRUE,
                 owner |-> DocOwner, sharedWith |-> [u \in {"u2"} |-> "editor"]]
  /\ presence = {}
  /\ pubq = [i \in Instances |-> <<>>]
  /\ busq = [i \in Instances |-> <<>>]
  /\ redisListeners = [i \in Instances |-> [ch \in Channels |-> 0]]
  /\ activeSubscriptions = [i \in Instances |-> {}]
  /\ activeUsers = [i \in Instances |-> [present |-> FALSE, gen |-> 0, members |-> {}]]
  /\ orphanUsers = [i \in Instances |-> {}]
  /\ operationBuffers = [i \in Instances |-> [present |-> FALSE, gen |-> 0, entries |-> <<>>]]
  /\ rooms = [i \in Instances |-> {}]
  /\ sockDocId = {}
  /\ liveSocks = {}
  /\ handlers = {}
  /\ inst \in {f \in [Clients -> Instances] : f["c1"] = "i1"}
  /\ connected = [c \in Clients |-> FALSE]
  /\ epoch = [c \in Clients |-> 0]
  /\ content = [c \in Clients |-> <<>>]
  /\ version = [c \in Clients |-> 0]
  /\ role = [c \in Clients |-> "none"]
  /\ sendQueue = [c \in Clients |-> <<>>]
  /\ inflightOp = [c \in Clients |-> NoOp]
  /\ sendBuffer = [c \in Clients |-> <<>>]
  /\ inbox = [c \in Clients |-> <<>>]
  /\ budget = [edits |-> 0, drops |-> 0, shares |-> 0]
  /\ applied = [c \in Clients |-> {}]
  /\ opSeen = [k \in OpIds |-> {}]
  /\ unacked = [c \in Clients |-> {}]
  /\ ackLog = {}
  /\ procLog = {}
  /\ savedLog = {}
  /\ obs = [c \in Clients |-> NewObs]
  /\ now = CURSOR_THROTTLE_MS
  /\ lastCursorUpdate = [i \in Instances |-> [u \in Users |-> 0]]
  /\ cursorLog = <<>>

\* socket.emit(event, msg) on each socket of `targets`: what reaches a client is
\* appended to its inbox, what is emitted to a closed connection is lost
EmitTo(ib, targets, msg) ==
  [c \in Clients |-> IF CurSock(c) \in targets /\ Reaches(CurSock(c))
                     THEN Append(ib[c], msg) ELSE ib[c]]

Msg(event, operation, ver, doc, r) ==
  [event |-> event, operation |-> operation, version |-> ver, document |-> doc, role |-> r]

\* ------------------------------------------------------ client: useDocument
\* the hook's applyOp: any type but insert and delete leaves the text as it is
applyOp(text, operation) ==
  IF operation.type = "insert"
  THEN LET pos == Min(Max(0, operation.position), Len(text))
       IN Slice(text, 0, pos) \o operation.text \o Slice(text, pos, Len(text))
  ELSE IF operation.type = "delete"
  THEN LET pos == Min(Max(0, operation.position), Len(text))
           end == Min(pos + operation.length, Len(text))
       IN Slice(text, 0, pos) \o Slice(text, end, Len(text))
  ELSE text

\* the baseVersion an operation is sent with
StampVersion(c) == version[c]

\* socketRef.current.emit('operation', ...): the server starts a handler for it,
\* or, while the socket is disconnected, socket.io keeps it in its send buffer
HandlersAfterEmit(c, op) ==
  IF connected[c] THEN handlers \cup {Handler("op", CurSock(c), "oPerm", op)} ELSE handlers
BufferAfterEmit(c, op) ==
  IF connected[c] THEN sendBuffer ELSE [sendBuffer EXCEPT ![c] = Append(@, op)]

\* the user types: EditorPage.handleInput calls sendInsert or sendDelete, which
\* queue the operation, apply it to the local content and call trySendNext
UserEdit(c, typed) ==
  /\ role[c] \in EDIT_ROLES
  /\ LET op == [typed EXCEPT !.id = budget.edits + 1]
         queue == Append(sendQueue[c], op)
         next == [Head(queue) EXCEPT !.baseVersion = StampVersion(c)]
     IN /\ content' = [content EXCEPT ![c] = applyOp(@, op)]
        /\ applied' = [applied EXCEPT ![c] = @ \cup {op.id}]
        /\ opSeen' = [opSeen EXCEPT ![op.id] = applied[c]]
        /\ budget' = [budget EXCEPT !.edits = @ + 1]
        /\ IF inflightOp[c] = NoOp
           THEN /\ sendQueue' = [sendQueue EXCEPT ![c] = Tail(queue)]
                /\ inflightOp' = [inflightOp EXCEPT ![c] = next]
                /\ handlers' = HandlersAfterEmit(c, next)
                /\ sendBuffer' = BufferAfterEmit(c, next)
                /\ unacked' = [unacked EXCEPT ![c] = @ \cup {next.id}]
                /\ obs' = [obs EXCEPT ![c].enqAt = Head(Append(obs[c].queuedAt, version[c])),
                                      ![c].queuedAt = Tail(Append(obs[c].queuedAt, version[c]))]
           ELSE /\ sendQueue' = [sendQueue EXCEPT ![c] = queue]
                /\ obs' = [obs EXCEPT ![c].queuedAt = Append(@, version[c])]
                /\ UNCHANGED <<inflightOp, handlers, sendBuffer, unacked>>
  /\ UNCHANGED <<cursorVars, storeVars, activeSubscriptions, activeUsers, orphanUsers, operationBuffers,
                 rooms, sockDocId, liveSocks, inst, connected, epoch, version, role, inbox,
                 logVars>>

SendInsert(c, position) ==
  /\ budget.edits < MaxEdits
  /\ position \in 0..Len(content[c])
  /\ UserEdit(c, [NoOp EXCEPT !.type = "insert", !.position = position, !.text = <<CharOf(c)>>])

\* the user types a character at the start or at the end of the text
TypeChar(c, position) ==
  /\ budget.edits < MaxTyped
  /\ position \in {0, Len(content[c])}
  /\ UserEdit(c, [NoOp EXCEPT !.type = "insert", !.position = position, !.text = <<CharOf(c)>>])

SendDelete(c, position, length) ==
  /\ budget.edits < MaxEdits
  /\ position + length <= Len(content[c])
  /\ UserEdit(c, [NoOp EXCEPT !.type = "delete", !.position = position, !.length = length])

\* what the session has been sent, after an event that carries version v
Observe(o, v, accepted) ==
  [o EXCEPT !.last = v, !.mono = o.mono /\ v >= o.last,
            !.lastAck = IF accepted THEN v ELSE o.lastAck,
            !.ackInc = o.ackInc /\ (accepted => v > o.lastAck)]

\* obs after onDocumentState
ObserveState(c, msg) ==
  [Observe(obs[c], msg.document.version, FALSE) EXCEPT
     !.stateId = budget.edits,
     !.cleared = Len(sendQueue[c]) + (IF inflightOp[c] = NoOp THEN 0 ELSE 1),
     !.queuedAt = <<>>, !.enqAt = 0]

\* an onDocumentState that keeps the queue and the operation in flight
OnDocumentStateKeepsQueue(c, msg) ==
  /\ content' = [content EXCEPT ![c] = msg.document.content]
  /\ version' = [version EXCEPT ![c] = msg.document.version]
  /\ role' = [role EXCEPT ![c] = msg.role]
  /\ applied' = [applied EXCEPT ![c] = msg.document.ids]
  /\ obs' = [obs EXCEPT ![c] = ObserveState(c, msg)]
  /\ UNCHANGED <<sendQueue, inflightOp, handlers, sendBuffer, unacked>>

OnDocumentState(c, msg) ==
  /\ content' = [content EXCEPT ![c] = msg.document.content]
  /\ version' = [version EXCEPT ![c] = msg.document.version]
  /\ sendQueue' = [sendQueue EXCEPT ![c] = <<>>]
  /\ inflightOp' = [inflightOp EXCEPT ![c] = NoOp]
  /\ role' = [role EXCEPT ![c] = msg.role]
  /\ applied' = [applied EXCEPT ![c] = msg.document.ids]
  /\ obs' = [obs EXCEPT ![c] = ObserveState(c, msg)]
  /\ UNCHANGED <<cursorVars, handlers, sendBuffer, unacked>>

\* an onOperationAck that sends the next operation with the version known when
\* it was enqueued
OnOperationAckEnqueueStamp(c, msg) ==
  LET next == [Head(sendQueue[c]) EXCEPT !.baseVersion = Head(obs[c].queuedAt)]
      seen == Observe(obs[c], msg.version, msg.operation.type # "noop")
  IN /\ version' = [version EXCEPT ![c] = msg.version]
     /\ IF sendQueue[c] # <<>>
        THEN /\ sendQueue' = [sendQueue EXCEPT ![c] = Tail(@)]
             /\ inflightOp' = [inflightOp EXCEPT ![c] = next]
             /\ handlers' = HandlersAfterEmit(c, next)
             /\ sendBuffer' = BufferAfterEmit(c, next)
             /\ unacked' = [unacked EXCEPT ![c] = (@ \ {msg.operation.id}) \cup {next.id}]
             /\ obs' = [obs EXCEPT ![c] = [seen EXCEPT !.enqAt = Head(obs[c].queuedAt),
                                                       !.queuedAt = Tail(obs[c].queuedAt)]]
        ELSE /\ inflightOp' = [inflightOp EXCEPT ![c] = NoOp]
             /\ unacked' = [unacked EXCEPT ![c] = @ \ {msg.operation.id}]
             /\ obs' = [obs EXCEPT ![c] = seen]
             /\ UNCHANGED <<sendQueue, handlers, sendBuffer>>
     /\ UNCHANGED <<content, role, applied>>

OnOperationAck(c, msg) ==
  LET next == [Head(sendQueue[c]) EXCEPT !.baseVersion = msg.version]
      seen == Observe(obs[c], msg.version, msg.operation.type # "noop")
  IN /\ version' = [version EXCEPT ![c] = msg.version]
     /\ IF sendQueue[c] # <<>>
        THEN /\ sendQueue' = [sendQueue EXCEPT ![c] = Tail(@)]
             /\ inflightOp' = [inflightOp EXCEPT ![c] = next]
             /\ handlers' = HandlersAfterEmit(c, next)
             /\ sendBuffer' = BufferAfterEmit(c, next)
             /\ unacked' = [unacked EXCEPT ![c] = (@ \ {msg.operation.id}) \cup {next.id}]
             /\ obs' = [obs EXCEPT ![c] = [seen EXCEPT !.enqAt = Head(obs[c].queuedAt),
                                                       !.queuedAt = Tail(obs[c].queuedAt)]]
        ELSE /\ inflightOp' = [inflightOp EXCEPT ![c] = NoOp]
             /\ unacked' = [unacked EXCEPT ![c] = @ \ {msg.operation.id}]
             /\ obs' = [obs EXCEPT ![c] = seen]
             /\ UNCHANGED <<sendQueue, handlers, sendBuffer>>
     /\ UNCHANGED <<content, role, applied>>

OnRemoteOperation(c, msg) ==
  /\ content' = [content EXCEPT ![c] = applyOp(@, msg.operation)]
  /\ version' = [version EXCEPT ![c] = msg.version]
  /\ applied' = [applied EXCEPT ![c] = @ \cup {msg.operation.id}]
  /\ obs' = [obs EXCEPT ![c] = Observe(@, msg.version, FALSE)]
  /\ UNCHANGED <<cursorVars, role, sendQueue, inflightOp, handlers, sendBuffer, unacked>>

\* setError(message): nothing of the editing state changes
OnErrorMessage(c, msg) ==
  UNCHANGED <<hookVars, handlers, applied, unacked, obs>>

\* the client handles the next event of its connection
ClientReceive(c) ==
  /\ connected[c]
  /\ inbox[c] # <<>>
  /\ LET msg == Head(inbox[c])
     IN CASE msg.event = "document_state" -> OnDocumentState(c, msg)
          [] msg.event = "operation_ack" -> OnOperationAck(c, msg)
          [] msg.event = "remote_operation" -> OnRemoteOperation(c, msg)
          [] OTHER -> OnErrorMessage(c, msg)
  /\ inbox' = [inbox EXCEPT ![c] = Tail(@)]
  /\ UNCHANGED <<cursorVars, storeVars, activeSubscriptions, activeUsers, orphanUsers, operationBuffers,
                 rooms, sockDocId, liveSocks, inst, connected, epoch, budget, opSeen, logVars>>

\* the socket connects (the first time, or socket.io reconnects it): socket.io
\* sends its buffered emits, then onConnect emits join_document
Connect(c) ==
  /\ ~connected[c]
  /\ LET s == Sock(c, epoch[c] + 1)
     IN /\ epoch' = [epoch EXCEPT ![c] = @ + 1]
        /\ connected' = [connected EXCEPT ![c] = TRUE]
        /\ liveSocks' = liveSocks \cup {s}
        /\ handlers' = handlers \cup {Handler("join", s, "jRead", NoOp)}
                         \cup {Handler("op", s, "oPerm", sendBuffer[c][k]) :
                                 k \in 1..Len(sendBuffer[c])}
        /\ sendBuffer' = [sendBuffer EXCEPT ![c] = <<>>]
        /\ inbox' = [inbox EXCEPT ![c] = <<>>]
        /\ obs' = [obs EXCEPT ![c] = [@ EXCEPT !.last = NewObs.last, !.mono = NewObs.mono,
                                                !.lastAck = NewObs.lastAck,
                                                !.ackInc = NewObs.ackInc]]
  /\ UNCHANGED <<cursorVars, storeVars, activeSubscriptions, activeUsers, orphanUsers, operationBuffers,
                 rooms, sockDocId, inst, content, version, role, sendQueue, inflightOp,
                 budget, applied, opSeen, unacked, logVars>>

\* the connection is lost: what was on its way to the client is gone
ClientDrop(c) ==
  /\ connected[c]
  /\ budget.drops < MaxDrops
  /\ connected' = [connected EXCEPT ![c] = FALSE]
  /\ inbox' = [inbox EXCEPT ![c] = <<>>]
  /\ budget' = [budget EXCEPT !.drops = @ + 1]
  /\ UNCHANGED <<cursorVars, storeVars, srvVars, inst, epoch, hookVars, applied, opSeen, unacked,
                 logVars, obs>>

\* ----------------------------------------------- server: documentHandler
InstOf(h) == inst[h.sock.c]
UserIdOf(h) == UserOf(h.sock.c)
Resume(h, kind, pc) == h \in handlers /\ h.kind = kind /\ h.pc = pc

ErrorMsg == Msg("error_message", NoOp, 0, NoDoc, "none")

\* getDocumentUsers: the document's user map, created when there is none
getDocumentUsers(i) ==
  IF activeUsers[i].present THEN activeUsers[i]
  ELSE [present |-> TRUE, gen |-> activeUsers[i].gen + 1, members |-> {}]

\* getBuffer: the document's operation buffer, created when there is none
getBuffer(i) ==
  IF operationBuffers[i].present THEN operationBuffers[i]
  ELSE [present |-> TRUE, gen |-> operationBuffers[i].gen + 1, entries |-> <<>>]

\* where join_document goes on after setPresence: subscribeToDocument and
\* subscribeToPresence return at once for a channel in activeSubscriptions
AfterPresence(i) ==
  IF "doc" \notin activeSubscriptions[i] THEN "jSubDoc"
  ELSE IF "presence" \notin activeSubscriptions[i] THEN "jSubPres" ELSE "jState"
AfterSubDoc(i) ==
  IF "presence" \notin activeSubscriptions[i] THEN "jSubPres" ELSE "jState"

\* join_document, resumed with the answer of getDocumentWithAccess(.., 'read')
JoinRead(h) ==
  /\ Resume(h, "join", "jRead")
  /\ LET i == InstOf(h)
         access == getDocumentWithAccess(findById, UserIdOf(h), "read")
         r == access.role
         users == getDocumentUsers(i)
     IN IF access.status # 200
        THEN /\ inbox' = EmitTo(inbox, {h.sock}, ErrorMsg)
             /\ handlers' = handlers \ {h}
             /\ UNCHANGED <<rooms, sockDocId, activeUsers>>
        ELSE /\ rooms' = [rooms EXCEPT ![i] = @ \cup {h.sock}]
             /\ sockDocId' = sockDocId \cup {h.sock}
             /\ activeUsers' = [activeUsers EXCEPT
                                  ![i] = [users EXCEPT !.members = @ \cup {UserIdOf(h)}]]
             /\ handlers' = (handlers \ {h}) \cup
                  {[h EXCEPT !.pc = "jPresence", !.role = r, !.usersGen = users.gen,
                             !.doc = [content |-> document.content,
                                      version |-> document.version, ids |-> document.ids]]}
             /\ UNCHANGED inbox
  /\ UNCHANGED <<cursorVars, storeVars, activeSubscriptions, orphanUsers, operationBuffers, liveSocks,
                 inst, connected, epoch, hookVars, budget, applied, opSeen, unacked,
                 logVars, obs>>

\* setPresence has written the key; the subscriptions are looked up
JoinPresence(h) ==
  /\ Resume(h, "join", "jPresence")
  /\ presence' = presence \cup {UserIdOf(h)}
  /\ handlers' = (handlers \ {h}) \cup {[h EXCEPT !.pc = AfterPresence(InstOf(h))]}
  /\ UNCHANGED <<cursorVars, document, pubq, busq, redisListeners, activeSubscriptions, activeUsers,
                 orphanUsers, operationBuffers, rooms, sockDocId, liveSocks,
                 inst, connected, epoch, hookVars, inbox, budget, applied, opSeen, unacked,
                 logVars, obs>>

\* subscribeToDocument / subscribeToPresence, resumed after subClient.subscribe
Subscribed(h, pc, channel, nextPc) ==
  /\ Resume(h, "join", pc)
  /\ redisListeners' = [redisListeners EXCEPT ![InstOf(h)][channel] = @ + 1]
  /\ activeSubscriptions' = [activeSubscriptions EXCEPT ![InstOf(h)] = @ \cup {channel}]
  /\ handlers' = (handlers \ {h}) \cup {[h EXCEPT !.pc = nextPc]}
  /\ UNCHANGED <<cursorVars, document, presence, pubq, busq, activeUsers, orphanUsers, operationBuffers,
                 rooms, sockDocId, liveSocks, inst, connected, epoch, hookVars, inbox,
                 budget, applied, opSeen, unacked, logVars, obs>>

JoinSubDoc(h) == Subscribed(h, "jSubDoc", "doc", AfterSubDoc(InstOf(h)))
JoinSubPres(h) == Subscribed(h, "jSubPres", "presence", "jState")

\* document.populate has answered: document_state goes to the joining socket
\* (user_joined, to the room and the presence channel, changes nothing kept here)
JoinState(h) ==
  /\ Resume(h, "join", "jState")
  /\ inbox' = EmitTo(inbox, {h.sock}, Msg("document_state", NoOp, h.doc.version, h.doc, h.role))
  /\ handlers' = handlers \ {h}
  /\ UNCHANGED <<cursorVars, storeVars, activeSubscriptions, activeUsers, orphanUsers, operationBuffers,
                 rooms, sockDocId, liveSocks, inst, connected, epoch, hookVars,
                 budget, applied, opSeen, unacked, logVars, obs>>

\* the shape checks of the operation event
ValidShape(operation) ==
  /\ ~(operation.type = "insert" /\ operation.text = <<>>)
  /\ ~(operation.type = "delete" /\ operation.length = 0)

\* a check of the read roles in place of the edit roles
MayRead(doc, userId) == canRead(doc, userId)

\* the permission check of the operation event
MayEdit(doc, userId) == canEdit(doc, userId)

\* operation, resumed with the answer of Document.findById: permission and shape
OpPerm(h) ==
  /\ Resume(h, "op", "oPerm")
  /\ IF findById # {} /\ MayEdit(document, UserIdOf(h)) /\ ValidShape(h.op)
     THEN /\ handlers' = (handlers \ {h}) \cup {[h EXCEPT !.pc = "oFetch"]}
          /\ UNCHANGED inbox
     ELSE /\ inbox' = EmitTo(inbox, {h.sock}, ErrorMsg)
          /\ handlers' = handlers \ {h}
  /\ UNCHANGED <<cursorVars, storeVars, activeSubscriptions, activeUsers, orphanUsers, operationBuffers,
                 rooms, sockDocId, liveSocks, inst, connected, epoch, hookVars,
                 budget, applied, opSeen, unacked, logVars, obs>>

\* ---------------------------------------------- otService.processOperation
\* the operation after the transformation against the missed operations
TransformMissed(operation, doc, buffer) ==
  IF operation.baseVersion < doc.version
  THEN FoldTransform(operation, MissedOps(buffer, operation.baseVersion), {})
  ELSE [op |-> operation, against |-> {}]

\* a processOperation without the return for a no-op
NeverNoop(operation) == FALSE

\* the test of the transformed operation before anything is saved
IsNoop(operation) == operation.type = "noop"

\* ids of the operations saved with a version in (from, to]
SavedBetween(from, to) ==
  {e.id : e \in {x \in savedLog : x.version > from /\ x.version <= to}}

AckMsg(operation, ver) == Msg("operation_ack", operation, ver, NoDoc, "none")
RemoteMsg(operation, ver) == Msg("remote_operation", operation, ver, NoDoc, "none")
BusMsg(i, operation, ver) ==
  [channel |-> "doc", serverId |-> i, payload |-> RemoteMsg(operation, ver)]

\* the sockets socket.to(room) emits to
ToRoom(i, sender) == rooms[i] \ {sender}

\* after processOperation has returned: operation_ack to the sender,
\* remote_operation to the room, and the publish command on pubClient
Answer(h, operation, ver) ==
  /\ inbox' = EmitTo(EmitTo(inbox, {h.sock}, AckMsg(operation, ver)),
                     ToRoom(InstOf(h), h.sock), RemoteMsg(operation, ver))
  /\ pubq' = [pubq EXCEPT ![InstOf(h)] = Append(@, BusMsg(InstOf(h), operation, ver))]
  /\ ackLog' = ackLog \cup {[id |-> operation.id, version |-> ver, operation |-> operation]}

\* an operation handler that acknowledges an operation whose processOperation
\* has thrown
OperationErrorAcked(ib, h) == EmitTo(ib, {h.sock}, AckMsg(h.op, h.op.baseVersion))

\* the catch of the operation handler: error_message to the sender
OperationError(ib, h) == EmitTo(ib, {h.sock}, ErrorMsg)

\* processOperation, resumed with the answer of Document.findById: it throws
\* when there is no document (the handler answers error_message); otherwise it
\* transforms; a noop returns at once, anything else is applied to the record
\* and saved
OpProcess(h) ==
  /\ Resume(h, "op", "oFetch")
  /\ IF findById = {}
     THEN /\ inbox' = OperationError(inbox, h)
          /\ handlers' = handlers \ {h}
          /\ UNCHANGED <<operationBuffers, procLog, pubq, ackLog>>
     ELSE LET i == InstOf(h)
              buffer == getBuffer(i)
              t == TransformMissed(h.op, document, buffer.entries)
          IN /\ operationBuffers' = [operationBuffers EXCEPT ![i] = buffer]
             /\ procLog' = procLog \cup
                  {[id |-> h.op.id, base |-> h.op.baseVersion, cur |-> document.version,
                    against |-> t.against, noop |-> t.op.type = "noop",
                    missed |-> SavedBetween(h.op.baseVersion, document.version)]}
             /\ IF IsNoop(t.op)
                THEN /\ Answer(h, t.op, document.version)
                     /\ handlers' = handlers \ {h}
                ELSE /\ handlers' = (handlers \ {h}) \cup
                          {[h EXCEPT !.pc = "oSave", !.tOp = t.op, !.bufGen = buffer.gen,
                                     !.snap = [content |-> document.content,
                                               version |-> document.version, ids |-> {}],
                                     !.doc = [content |-> applyOperation(document.content, t.op),
                                              version |-> document.version + 1,
                                              ids |-> document.ids \cup {h.op.id}]]}
                     /\ UNCHANGED <<inbox, pubq, ackLog>>
  /\ UNCHANGED <<cursorVars, document, presence, busq, redisListeners, activeSubscriptions, activeUsers,
                 orphanUsers, rooms, sockDocId, liveSocks, inst, connected, epoch, hookVars,
                 budget, applied, opSeen, unacked, savedLog, obs>>

\* document.save() reaches the store: content and version are set, the snapshot
\* is appended to the stored history
OpSave(h) ==
  /\ Resume(h, "op", "oSave")
  /\ document.exists
  /\ document' = [document EXCEPT
       !.content = h.doc.content, !.version = h.doc.version, !.ids = h.doc.ids,
       !.versionHistory = pushVersionSnapshot(@,
            [version |-> h.snap.version, contentSnapshot |-> h.snap.content,
             editedBy |-> UserIdOf(h)])]
  /\ savedLog' = savedLog \cup {[version |-> h.doc.version, id |-> h.op.id]}
  /\ handlers' = (handlers \ {h}) \cup {[h EXCEPT !.pc = "oSaved"]}
  /\ UNCHANGED <<cursorVars, presence, pubq, busq, redisListeners, activeSubscriptions, activeUsers,
                 orphanUsers, operationBuffers, rooms, sockDocId, liveSocks, inst, connected,
                 epoch, hookVars, inbox, budget, applied, opSeen, unacked, ackLog, procLog, obs>>

\* document.save() fails (the store is not reached, the record is gone):
\* processOperation throws and the handler answers error_message
OpSaveFails(h) ==
  /\ Resume(h, "op", "oSave")
  /\ inbox' = OperationError(inbox, h)
  /\ handlers' = handlers \ {h}
  /\ UNCHANGED <<cursorVars, storeVars, activeSubscriptions, activeUsers, orphanUsers, operationBuffers,
                 rooms, sockDocId, liveSocks, inst, connected, epoch, hookVars,
                 budget, applied, opSeen, unacked, logVars, obs>>

\* processOperation, resumed after save(): the entry goes to the buffer array the
\* call got from getBuffer (an array clearBuffer has dropped since is lost)
OpSaved(h) ==
  /\ Resume(h, "op", "oSaved")
  /\ LET i == InstOf(h)
         b == operationBuffers[i]
     IN operationBuffers' =
          IF b.present /\ b.gen = h.bufGen
          THEN [operationBuffers EXCEPT ![i].entries =
                  PushBuffer(@, [version |-> h.doc.version, operation |-> h.tOp])]
          ELSE operationBuffers
  /\ Answer(h, h.tOp, h.doc.version)
  /\ handlers' = handlers \ {h}
  /\ UNCHANGED <<cursorVars, document, presence, busq, redisListeners, activeSubscriptions, activeUsers,
                 orphanUsers, rooms, sockDocId, liveSocks, inst, connected, epoch, hookVars,
                 budget, applied, opSeen, unacked, procLog, savedLog, obs>>

\* --------------------------------------------------------- realtimeService
\* Redis takes the next publish command of an instance and sends the message to
\* every connection subscribed to the channel
RedisPublish(i) ==
  /\ pubq[i] # <<>>
  /\ busq' = [j \in Instances |->
               IF redisListeners[j][Head(pubq[i]).channel] > 0
               THEN Append(busq[j], Head(pubq[i])) ELSE busq[j]]
  /\ pubq' = [pubq EXCEPT ![i] = Tail(@)]
  /\ UNCHANGED <<cursorVars, document, presence, redisListeners, srvVars, inst, connected, epoch,
                 hookVars, inbox, budget, applied, opSeen, unacked, logVars, obs>>

\* a publishOperation that lets the error of the publish command reach the
\* operation handlers of the instance, which answer error_message
PublishErrorThrown(ib, i) ==
  [c \in Clients |-> IF inst[c] = i /\ Reaches(CurSock(c)) THEN Append(ib[c], ErrorMsg)
                     ELSE ib[c]]

\* the catch of publishOperation: the error is logged, nothing is emitted
PublishErrorLogged(ib, i) == ib

\* the publish command of an instance fails: no message reaches Redis
PublishFails(i) ==
  /\ pubq[i] # <<>>
  /\ pubq' = [pubq EXCEPT ![i] = Tail(@)]
  /\ inbox' = PublishErrorLogged(inbox, i)
  /\ UNCHANGED <<cursorVars, document, presence, busq, redisListeners, srvVars, inst, connected, epoch,
                 hookVars, budget, applied, opSeen, unacked, logVars, obs>>

\* the message is from another server: it is not skipped
FromOtherServer(i, msg) == msg.serverId # i

RECURSIVE EmitTimes(_, _, _, _)
EmitTimes(ib, targets, msg, n) ==
  IF n = 0 THEN ib ELSE EmitTimes(EmitTo(ib, targets, msg), targets, msg, n - 1)

\* subClient hands the next message to each listener of its channel: a listener
\* skips a message of its own server and emits any other to the room
BusDeliver(i) ==
  /\ busq[i] # <<>>
  /\ LET msg == Head(busq[i])
     IN inbox' = IF FromOtherServer(i, msg)
                 THEN EmitTimes(inbox, rooms[i], msg.payload, redisListeners[i][msg.channel])
                 ELSE inbox
  /\ busq' = [busq EXCEPT ![i] = Tail(@)]
  /\ UNCHANGED <<cursorVars, document, presence, pubq, redisListeners, srvVars, inst, connected, epoch,
                 hookVars, budget, applied, opSeen, unacked, logVars, obs>>

\* ------------------------------------------------- disconnect and leaving
\* users.size === 0 for the user map a leaving handler got at its start
UsersEmpty(h) ==
  LET au == activeUsers[InstOf(h)]
  IN IF au.present /\ au.gen = h.usersGen THEN au.members = {}
     ELSE h.usersGen \notin orphanUsers[InstOf(h)]

\* where unsubscribeFromDocument goes on: it unsubscribes the channels that are
\* in activeSubscriptions
AfterCleanup(i) ==
  IF "doc" \in activeSubscriptions[i] THEN "lUnsubDoc"
  ELSE IF "presence" \in activeSubscriptions[i] THEN "lUnsubPres" ELSE "done"
AfterUnsubDoc(i) ==
  IF "presence" \in activeSubscriptions[i] THEN "lUnsubPres" ELSE "done"

Continue(h, pc) ==
  handlers' = IF pc = "done" THEN handlers \ {h} ELSE (handlers \ {h}) \cup {[h EXCEPT !.pc = pc]}

\* the server notices that a connection is gone: socket.io takes the socket out
\* of its rooms and the disconnect handler calls handleUserLeave when
\* socket.documentId is set; handleUserLeave runs up to removePresence
ServerDisconnect(s) ==
  /\ s \in liveSocks
  /\ ~(connected[s.c] /\ epoch[s.c] = s.e)
  /\ liveSocks' = liveSocks \ {s}
  /\ rooms' = [rooms EXCEPT ![inst[s.c]] = @ \ {s}]
  /\ LET i == inst[s.c]
         users == getDocumentUsers(i)
     IN IF s \in sockDocId
        THEN /\ activeUsers' = [activeUsers EXCEPT
                                  ![i] = [users EXCEPT !.members = @ \ {UserOf(s.c)}]]
             /\ handlers' = handlers \cup
                  {[Handler("leave", s, "lPresence", NoOp) EXCEPT !.usersGen = users.gen]}
        ELSE UNCHANGED <<activeUsers, handlers>>
  /\ UNCHANGED <<cursorVars, storeVars, activeSubscriptions, orphanUsers, operationBuffers, sockDocId,
                 inst, connected, epoch, hookVars, inbox, budget, applied, opSeen, unacked,
                 logVars, obs>>

\* handleUserLeave, resumed after removePresence: user_left goes to the room and
\* the presence channel
LeavePresence(h) ==
  /\ Resume(h, "leave", "lPresence")
  /\ presence' = presence \ {UserIdOf(h)}
  /\ lastCursorUpdate' = [lastCursorUpdate EXCEPT ![InstOf(h)][UserIdOf(h)] = 0]
  /\ Continue(h, "lPublish")
  /\ UNCHANGED <<now, cursorLog, document, pubq, busq, redisListeners, activeSubscriptions, activeUsers,
                 orphanUsers, operationBuffers, rooms, sockDocId, liveSocks, inst, connected,
                 epoch, hookVars, inbox, budget, applied, opSeen, unacked, logVars, obs>>

\* handleUserLeave, resumed after publishPresence: an empty user map is deleted,
\* the buffer cleared and unsubscribeFromDocument called
LeavePublish(h) ==
  /\ Resume(h, "leave", "lPublish")
  /\ LET i == InstOf(h)
         au == activeUsers[i]
     IN IF UsersEmpty(h)
        THEN /\ activeUsers' = [activeUsers EXCEPT ![i] = [au EXCEPT !.present = FALSE,
                                                                     !.members = {}]]
             /\ orphanUsers' = [orphanUsers EXCEPT
                  ![i] = IF au.present /\ au.members # {} THEN @ \cup {au.gen} ELSE @]
             /\ operationBuffers' = [operationBuffers EXCEPT
                  ![i] = [@ EXCEPT !.present = FALSE, !.entries = <<>>]]
             /\ Continue(h, AfterCleanup(i))
        ELSE /\ Continue(h, "done")
             /\ UNCHANGED <<activeUsers, orphanUsers, operationBuffers>>
  /\ UNCHANGED <<cursorVars, storeVars, activeSubscriptions, rooms, sockDocId, liveSocks, inst,
                 connected, epoch, hookVars, inbox, budget, applied, opSeen, unacked,
                 logVars, obs>>

\* unsubscribeFromDocument, resumed after subClient.unsubscribe(channel)
Unsubscribed(h, pc, channel, nextPc) ==
  /\ Resume(h, "leave", pc)
  /\ redisListeners' = [redisListeners EXCEPT ![InstOf(h)][channel] = 0]
  /\ activeSubscriptions' = [activeSubscriptions EXCEPT ![InstOf(h)] = @ \ {channel}]
  /\ Continue(h, nextPc)
  /\ UNCHANGED <<cursorVars, document, presence, pubq, busq, activeUsers, orphanUsers, operationBuffers,
                 rooms, sockDocId, liveSocks, inst, connected, epoch, hookVars, inbox,
                 budget, applied, opSeen, unacked, logVars, obs>>

LeaveUnsubDoc(h) == Unsubscribed(h, "lUnsubDoc", "doc", AfterUnsubDoc(InstOf(h)))
LeaveUnsubPres(h) == Unsubscribed(h, "lUnsubPres", "presence", "done")

\* ------------------------------------------------- any operation event
\* what a session may put into an operation event
RawVersions == 1..(MaxEdits + 1)
RawOperations ==
  {[NoOp EXCEPT !.type = "insert", !.position = p, !.text = <<"z">>, !.baseVersion = b] :
     p \in {0, 1}, b \in RawVersions}
  \cup {[NoOp EXCEPT !.type = "delete", !.position = 0, !.length = l, !.baseVersion = b] :
     l \in {0, 1}, b \in RawVersions}

\* a connected session emits an operation event with a payload of its choosing
\* (the server takes type, position, text, length and baseVersion as they come)
EmitOperation(c, operation) ==
  /\ connected[c]
  /\ budget.edits < MaxEdits
  /\ handlers' = handlers \cup
       {Handler("op", CurSock(c), "oPerm", [operation EXCEPT !.id = budget.edits + 1])}
  /\ budget' = [budget EXCEPT !.edits = @ + 1]
  /\ UNCHANGED <<cursorVars, storeVars, activeSubscriptions, activeUsers, orphanUsers, operationBuffers,
                 rooms, sockDocId, liveSocks, inst, connected, epoch, hookVars, inbox,
                 applied, opSeen, unacked, logVars, obs>>

\* ------------------------------------------------------------ share route
\* POST /:id/share by the owner: the share entry of the other user gets a role
Share(r) ==
  /\ budget.shares < MaxShares
  /\ r # document.sharedWith["u2"]
  /\ document' = [document EXCEPT !.sharedWith["u2"] = r]
  /\ budget' = [budget EXCEPT !.shares = @ + 1]
  /\ UNCHANGED <<cursorVars, presence, pubq, busq, redisListeners, srvVars, inst, connected, epoch,
                 hookVars, inbox, applied, opSeen, unacked, logVars, obs>>

\* ------------------------------------------------------------- cursor_move
\* the clocks of the server processes go on
Tick ==
  /\ now + TickMs <= CURSOR_THROTTLE_MS + MaxClock
  /\ now' = now + TickMs
  /\ UNCHANGED <<storeVars, srvVars, inst, connected, epoch, hookVars, inbox, budget,
                 applied, opSeen, unacked, logVars, obs, lastCursorUpdate, cursorLog>>

\* a connected session emits cursor_move: the handler drops it within
\* CURSOR_THROTTLE_MS of the entry of lastCursorUpdate; otherwise it sets the
\* entry, broadcasts cursor_moved to the room and, for a user in the user map,
\* writes the presence key
CursorMove(c) ==
  /\ Reaches(CurSock(c))
  /\ LET i == inst[c]
         u == UserOf(c)
         users == getDocumentUsers(i)
     IN IF now - lastCursorUpdate[i][u] < CURSOR_THROTTLE_MS
        THEN UNCHANGED <<lastCursorUpdate, cursorLog, activeUsers, presence>>
        ELSE /\ lastCursorUpdate' = [lastCursorUpdate EXCEPT ![i][u] = now]
             /\ cursorLog' = Append(cursorLog, [userId |-> u, time |-> now,
                                                to |-> ToRoom(i, CurSock(c)),
                                                joined |-> CurSock(c) \in rooms[i]])
             /\ activeUsers' = [activeUsers EXCEPT ![i] = users]
             /\ presence' = IF u \in users.members THEN presence \cup {u} ELSE presence
  /\ UNCHANGED <<document, pubq, busq, redisListeners, activeSubscriptions, orphanUsers,
                 operationBuffers, rooms, sockDocId, liveSocks, handlers, inst, connected,
                 epoch, hookVars, inbox, budget, applied, opSeen, unacked, logVars, obs, now>>

\* ----------------------------------------------------------- delete route
\* DELETE /:id by the owner: the record is taken out of the store
DeleteDocument ==
  /\ getDocumentWithAccess(findById, DocOwner, "owner").status = 200
  /\ document' = [document EXCEPT !.exists = FALSE]
  /\ UNCHANGED <<cursorVars, presence, pubq, busq, redisListeners, srvVars, inst, connected, epoch,
                 hookVars, inbox, budget, applied, opSeen, unacked, logVars, obs>>

\* ------------------------------------------------------------ specifications
\* the steps of the server instances, of Redis and of message delivery
ServerStep ==
  \/ \E c \in Clients : ClientReceive(c)
  \/ \E h \in handlers : OpPerm(h)
  \/ \E h \in handlers : OpProcess(h)
  \/ \E h \in handlers : OpSave(h)
  \/ \E h \in handlers : OpSaved(h)
  \/ \E i \in Instances : RedisPublish(i)
  \/ \E i \in Instances : BusDeliver(i)

\* the steps of join_document
JoinStep ==
  \/ \E h \in handlers : JoinRead(h)
  \/ \E h \in handlers : JoinPresence(h)
  \/ \E h \in handlers : JoinSubDoc(h)
  \/ \E h \in handlers : JoinSubPres(h)
  \/ \E h \in handlers : JoinState(h)

\* the steps of disconnect and handleUserLeave
LeaveStep ==
  \/ \E s \in liveSocks : ServerDisconnect(s)
  \/ \E h \in handlers : LeavePresence(h)
  \/ \E h \in handlers : LeavePublish(h)
  \/ \E h \in handlers : LeaveUnsubDoc(h)
  \/ \E h \in handlers : LeaveUnsubPres(h)

\* every step of the system; the specifications below take parts of it, from
\* states the connecting steps reach
Next ==
  \/ \E c \in Clients : Connect(c)
  \/ \E c \in Clients : ClientDrop(c)
  \/ \E c \in Clients : \E position \in 0..Len(content[c]) : SendInsert(c, position)
  \/ \E c \in Clients : \E position \in 0..Len(content[c]) : \E length \in DelLengths :
        SendDelete(c, position, length)
  \/ \E c \in Clients : \E operation \in RawOperations : EmitOperation(c, operation)
  \/ \E r \in ShareRoles : Share(r)
  \/ DeleteDocument
  \/ \E h \in handlers : OpSaveFails(h)
  \/ \E i \in Instances : PublishFails(i)
  \/ \E c \in Clients : CursorMove(c)
  \/ Tick
  \/ JoinStep
  \/ LeaveStep
  \/ ServerStep

Spec == Init /\ [][Next]_vars

\* the clients connect and join, nothing else happens
NextConnect ==
  \/ \E c \in Clients : Connect(c)
  \/ JoinStep
  \/ \E c \in Clients : ClientReceive(c)

SpecConnect == Init /\ [][NextConnect]_vars

\* ------------------------------------------- the room with every client joined
\* the state after each client has connected once and its join_document has
\* completed, before any edit
InitJoined ==
  /\ document = [content |-> InitContent, version |-> 1, ids |-> {}, versionHistory |-> <<>>, exists |-> TRUE,
                 owner |-> DocOwner, sharedWith |-> [u \in {"u2"} |-> "editor"]]
  /\ presence = Users
  /\ pubq = [i \in Instances |-> <<>>]
  /\ busq = [i \in Instances |-> <<>>]
  /\ inst \in {f \in [Clients -> Instances] : f["c1"] = "i1"}
  /\ redisListeners = [i \in Instances |->
       [ch \in Channels |-> IF \E c \in Clients : inst[c] = i THEN 1 ELSE 0]]
  /\ activeSubscriptions = [i \in Instances |->
       IF \E c \in Clients : inst[c] = i THEN Channels ELSE {}]
  /\ activeUsers = [i \in Instances |->
       IF \E c \in Clients : inst[c] = i
       THEN [present |-> TRUE, gen |-> 1, members |-> {UserOf(c) : c \in {d \in Clients : inst[d] = i}}]
       ELSE [present |-> FALSE, gen |-> 0, members |-> {}]]
  /\ orphanUsers = [i \in Instances |-> {}]
  /\ operationBuffers = [i \in Instances |-> [present |-> FALSE, gen |-> 0, entries |-> <<>>]]
  /\ rooms = [i \in Instances |-> {Sock(c, 1) : c \in {d \in Clients : inst[d] = i}}]
  /\ sockDocId = {Sock(c, 1) : c \in Clients}
  /\ liveSocks = {Sock(c, 1) : c \in Clients}
  /\ handlers = {}
  /\ connected = [c \in Clients |-> TRUE]
  /\ epoch = [c \in Clients |-> 1]
  /\ content = [c \in Clients |-> InitContent]
  /\ version = [c \in Clients |-> 1]
  /\ role = [c \in Clients |-> IF UserOf(c) = DocOwner THEN "owner" ELSE "editor"]
  /\ sendQueue = [c \in Clients |-> <<>>]
  /\ inflightOp = [c \in Clients |-> NoOp]
  /\ sendBuffer = [c \in Clients |-> <<>>]
  /\ inbox = [c \in Clients |-> <<>>]
  /\ budget = [edits |-> 0, drops |-> 0, shares |-> 0]
  /\ applied = [c \in Clients |-> {}]
  /\ opSeen = [k \in OpIds |-> {}]
  /\ unacked = [c \in Clients |-> {}]
  /\ ackLog = {}
  /\ procLog = {}
  /\ savedLog = {}
  /\ obs = [c \in Clients |-> [NewObs EXCEPT !.last = 1]]
  /\ now = CURSOR_THROTTLE_MS
  /\ lastCursorUpdate = [i \in Instances |-> [u \in Users |-> 0]]
  /\ cursorLog = <<>>

\* editing in the joined room: no connection is made or lost
NextEdit ==
  \/ \E c \in Clients : \E position \in 0..Len(content[c]) : SendInsert(c, position)
  \/ \E c \in Clients : \E position \in 0..Len(content[c]) : \E length \in DelLengths :
        SendDelete(c, position, length)
  \/ ServerStep

SpecEdit == InitJoined /\ [][NextEdit]_vars

\* typing in the joined room: insertions only
NextType ==
  \/ \E c \in Clients : \E position \in 0..Len(content[c]) : TypeChar(c, position)
  \/ ServerStep

\* the two clients reach different instances
InitCross == InitJoined /\ inst["c2"] = "i2"

SpecType == InitCross /\ [][NextType]_vars

\* the two clients reach the same instance
InitSame == InitJoined /\ inst["c2"] = "i1"

\* sessions that emit operation events of any content
NextRaw ==
  \/ \E c \in Clients : \E operation \in RawOperations : EmitOperation(c, operation)
  \/ ServerStep

SpecRaw == InitSame /\ [][NextRaw]_vars

\* the owner changes the other user's role while both type at the start of the text
NextShare ==
  \/ \E c \in Clients : \E position \in {0} : SendInsert(c, position)
  \/ \E r \in ShareRoles : Share(r)
  \/ ServerStep

SpecShare == InitSame /\ [][NextShare]_vars

\* ------------------------------------ one client joined, the other not connected
\* the state after c2 has joined through i2, before c1 has connected to i1
InitHalf ==
  /\ document = [content |-> InitContent, version |-> 1, ids |-> {}, versionHistory |-> <<>>, exists |-> TRUE,
                 owner |-> DocOwner, sharedWith |-> [u \in {"u2"} |-> "editor"]]
  /\ presence = {"u2"}
  /\ pubq = [i \in Instances |-> <<>>]
  /\ busq = [i \in Instances |-> <<>>]
  /\ inst = [c \in Clients |-> IF c = "c1" THEN "i1" ELSE "i2"]
  /\ redisListeners = [i \in Instances |-> [ch \in Channels |-> IF i = "i2" THEN 1 ELSE 0]]
  /\ activeSubscriptions = [i \in Instances |-> IF i = "i2" THEN Channels ELSE {}]
  /\ activeUsers = [i \in Instances |->
       IF i = "i2" THEN [present |-> TRUE, gen |-> 1, members |-> {"u2"}]
       ELSE [present |-> FALSE, gen |-> 0, members |-> {}]]
  /\ orphanUsers = [i \in Instances |-> {}]
  /\ operationBuffers = [i \in Instances |-> [present |-> FALSE, gen |-> 0, entries |-> <<>>]]
  /\ rooms = [i \in Instances |-> IF i = "i2" THEN {Sock("c2", 1)} ELSE {}]
  /\ sockDocId = {Sock("c2", 1)}
  /\ liveSocks = {Sock("c2", 1)}
  /\ handlers = {}
  /\ connected = [c \in Clients |-> c = "c2"]
  /\ epoch = [c \in Clients |-> IF c = "c2" THEN 1 ELSE 0]
  /\ content = [c \in Clients |-> IF c = "c2" THEN InitContent ELSE <<>>]
  /\ version = [c \in Clients |-> IF c = "c2" THEN 1 ELSE 0]
  /\ role = [c \in Clients |-> IF c = "c2" THEN "editor" ELSE "none"]
  /\ sendQueue = [c \in Clients |-> <<>>]
  /\ inflightOp = [c \in Clients |-> NoOp]
  /\ sendBuffer = [c \in Clients |-> <<>>]
  /\ inbox = [c \in Clients |-> <<>>]
  /\ budget = [edits |-> 0, drops |-> 0, shares |-> 0]
  /\ applied = [c \in Clients |-> {}]
  /\ opSeen = [k \in OpIds |-> {}]
  /\ unacked = [c \in Clients |-> {}]
  /\ ackLog = {}
  /\ procLog = {}
  /\ savedLog = {}
  /\ obs = [c \in Clients |-> [NewObs EXCEPT !.last = IF c = "c2" THEN 1 ELSE 0]]
  /\ now = CURSOR_THROTTLE_MS
  /\ lastCursorUpdate = [i \in Instances |-> [u \in Users |-> 0]]
  /\ cursorLog = <<>>

\* c1 joins a room in which c2 is editing; no connection is lost
NextJoin ==
  \/ Connect("c1")
  \/ \E c \in Clients : \E position \in 0..Len(content[c]) : SendInsert(c, position)
  \/ \E c \in Clients : \E position \in 0..Len(content[c]) : \E length \in DelLengths :
        SendDelete(c, position, length)
  \/ JoinStep
  \/ ServerStep

SpecJoin == InitHalf /\ [][NextJoin]_vars

\* c1 connects, types at the start of the text, loses its connection and
\* connects again; c2 stays joined and types nothing
NextRejoin ==
  \/ Connect("c1")
  \/ ClientDrop("c1")
  \/ \E position \in {0} : SendInsert("c1", position)
  \/ JoinStep
  \/ LeaveStep
  \/ ServerStep

SpecRejoin == InitHalf /\ [][NextRejoin]_vars

\* ------------------------------------------------------------------ claims
\* nothing is queued, in flight, being processed or on its way
Quiescent ==
  /\ handlers = {}
  /\ \A c \in Clients : /\ sendQueue[c] = <<>> /\ inflightOp[c] = NoOp
                        /\ sendBuffer[c] = <<>> /\ inbox[c] = <<>>
  /\ \A i \in Instances : pubq[i] = <<>> /\ busq[i] = <<>>

\* the client's present connection is in the document's room
Joined(c) == Reaches(CurSock(c)) /\ CurSock(c) \in rooms[inst[c]]

\* C1: once every send queue is empty, nothing is in flight and every
\* operation_ack and remote_operation has been delivered, the content of every
\* joined client equals the content the server has stored.
C1_QuiescentConvergence ==
  Quiescent => \A c \in Clients : Joined(c) => content[c] = document.content

\* the calls of processOperation on an instance that have fetched the record and
\* have not yet appended to the buffer
InProcess(i) == {h \in handlers : h.kind = "op" /\ InstOf(h) = i /\ h.pc \in {"oSave", "oSaved"}}

\* C2: two executions of processOperation for the document never overlap: while
\* one call is between its fetch of the record and its append to the buffer, no
\* other call has fetched the record.
C2_Serialized == \A i \in Instances : Cardinality(InProcess(i)) <= 1

\* the acknowledged operations that are not noops
AckedOps == {a \in ackLog : a.operation.type # "noop"}

\* the acknowledgement with the least version (and among equals the least id)
FirstAck(acks) ==
  CHOOSE a \in acks : \A b \in acks :
    a.version < b.version \/ (a.version = b.version /\ a.id <= b.id)

\* the text with the acknowledged operations applied in increasing version order
RECURSIVE ApplyAcked(_, _)
ApplyAcked(text, acks) ==
  IF acks = {} THEN text
  ELSE ApplyAcked(applyOperation(text, FirstAck(acks).operation), acks \ {FirstAck(acks)})

\* no call of processOperation has saved without having answered
AllAnswered == \A h \in handlers : h.pc # "oSaved"

\* C3: the stored content is the starting content with the transformed
\* operations of all acknowledged non-noop operations applied in increasing
\* version order.
C3_NoAcceptedEditLost ==
  AllAnswered => document.content = ApplyAcked(InitContent, AckedOps)

\* C4: after n operations have been acknowledged with a non-noop result the
\* stored version is the starting version plus n, and no two acknowledged
\* non-noop operations carry the same version.
C4_VersionPlusOnePerAccepted ==
  /\ AllAnswered => document.version = 1 + Cardinality({a.id : a \in AckedOps})
  /\ \A a, b \in AckedOps : a.id # b.id => a.version # b.version

\* C5: an operation whose baseVersion is below the current version is
\* transformed against every accepted operation with a version above its
\* baseVersion and at most the current version, whichever instance accepted it
\* (a transformation that ends in a noop stops early).
C5_TransformedAgainstEveryMissed ==
  \A r \in procLog : (r.base < r.cur /\ ~r.noop) => r.missed \subseteq r.against

\* the operations of a client that the server has been sent and has not finished
\* with: in socket.io's send buffer or in an operation handler
Outstanding(c) ==
  {sendBuffer[c][k].id : k \in 1..Len(sendBuffer[c])}
    \cup {h.op.id : h \in {g \in handlers : g.kind = "op" /\ g.sock.c = c}}

\* C8: at every moment at most one operation a client has sent is still
\* unacknowledged by the server, across user edits, operation_ack,
\* remote_operation and document_state (re-join) events.
C8_AtMostOneInFlight == \A c \in Clients : Cardinality(Outstanding(c)) <= 1

\* C9: an operation is never transformed by the server against an operation its
\* client had already applied to its local content when it produced the
\* operation (a remote operation it had received, or an earlier one of its own).
C9_NeverAgainstApplied == \A r \in procLog : r.against \cap opSeen[r.id] = {}

\* C10: the versions a session receives in document_state, operation_ack and
\* remote_operation events never decrease, and the versions in the acks of its
\* successive accepted operations strictly increase.
C10_MonotoneVersions == \A c \in Clients : obs[c].mono /\ obs[c].ackInc

\* C6: an operation whose baseVersion is greater than the current document
\* version is rejected: it is neither applied and saved nor acknowledged.
C6_FutureBaseRejected ==
  \A r \in procLog : r.base > r.cur =>
    /\ \A e \in savedLog : e.id # r.id
    /\ \A a \in ackLog : a.id # r.id

\* the operation handler h resumes in this step with the loaded document, and
\* its sender holds no edit role in it
Refused(h) ==
  /\ h.kind = "op" /\ h.pc = "oPerm" /\ h \notin handlers'
  /\ getUserRole(document, UserOf(h.sock.c)) \notin {"owner", "editor"}

\* C7: when an operation event resumes with the freshly loaded document and the
\* sender's role in it is not owner or editor, the handler ends with an
\* error_message to the sender; the stored document (content, version, history)
\* and the operation buffers are unchanged, nothing is acknowledged, broadcast
\* or published.
C7_PermissionRecheck ==
  [][\A h \in handlers : Refused(h) =>
        /\ handlers' = handlers \ {h}
        /\ inbox' = EmitTo(inbox, {h.sock}, ErrorMsg)
        /\ document' = document
        /\ operationBuffers' = operationBuffers
        /\ ackLog' = ackLog /\ savedLog' = savedLog
        /\ pubq' = pubq]_vars

\* a session that joined as editor has had an operation refused after its role
\* was changed to one that may not edit, and nothing was stored
C7_Witness ==
  /\ role["c2"] = "editor"
  /\ document.sharedWith["u2"] \notin EDIT_ROLES
  /\ \E k \in 1..Len(inbox["c2"]) : inbox["c2"][k].event = "error_message"
  /\ inflightOp["c2"] # NoOp
  /\ \A h \in handlers : h.sock.c # "c2"
  /\ \A a \in ackLog : a.id # inflightOp["c2"].id

\* ------------------------------------- remote operations in any arrival order
\* the operations a user can make on a text: an insert at any position, a delete
\* of a range inside it
UserOperations(text) ==
  {[NoOp EXCEPT !.type = "insert", !.position = p, !.text = <<"a">>] : p \in 0..Len(text)}
  \cup {d \in {[NoOp EXCEPT !.type = "delete", !.position = p, !.length = l] :
                  p \in 0..Len(text), l \in DelLengths} :
          d.position + d.length <= Len(text)}

\* the remote_operation events of two operations the server accepted one after
\* the other, at versions 2 and 3
AcceptedPairs ==
  {<<RemoteMsg([a EXCEPT !.id = 1, !.baseVersion = 1], 2),
     RemoteMsg([b EXCEPT !.id = 2, !.baseVersion = 2], 3)>> :
     a \in UserOperations(InitContent),
     b \in UNION {UserOperations(applyOperation(InitContent, x)) : x \in UserOperations(InitContent)}}

\* an accepted pair: the second operation was made on the text after the first
IsAccepted(pair) ==
  [pair[2].operation EXCEPT !.id = 0, !.baseVersion = 0]
    \in UserOperations(applyOperation(InitContent, pair[1].operation))

\* the orders in which the events of a pair can arrive
Arrivals(pair) == {pair, <<pair[2], pair[1]>>}

\* both clients are joined and idle; the same accepted events are on their way to
\* each, in an order of its own
InitApply ==
  /\ document = [content |-> InitContent, version |-> 1, ids |-> {}, versionHistory |-> <<>>, exists |-> TRUE,
                 owner |-> DocOwner, sharedWith |-> [u \in {"u2"} |-> "editor"]]
  /\ presence = Users
  /\ pubq = [i \in Instances |-> <<>>]
  /\ busq = [i \in Instances |-> <<>>]
  /\ inst = [c \in Clients |-> "i1"]
  /\ redisListeners = [i \in Instances |-> [ch \in Channels |-> IF i = "i1" THEN 1 ELSE 0]]
  /\ activeSubscriptions = [i \in Instances |-> IF i = "i1" THEN Channels ELSE {}]
  /\ activeUsers = [i \in Instances |->
       IF i = "i1" THEN [present |-> TRUE, gen |-> 1, members |-> Users]
       ELSE [present |-> FALSE, gen |-> 0, members |-> {}]]
  /\ orphanUsers = [i \in Instances |-> {}]
  /\ operationBuffers = [i \in Instances |-> [present |-> FALSE, gen |-> 0, entries |-> <<>>]]
  /\ rooms = [i \in Instances |-> IF i = "i1" THEN {Sock(c, 1) : c \in Clients} ELSE {}]
  /\ sockDocId = {Sock(c, 1) : c \in Clients}
  /\ liveSocks = {Sock(c, 1) : c \in Clients}
  /\ handlers = {}
  /\ connected = [c \in Clients |-> TRUE]
  /\ epoch = [c \in Clients |-> 1]
  /\ content = [c \in Clients |-> InitContent]
  /\ version = [c \in Clients |-> 1]
  /\ role = [c \in Clients |-> IF UserOf(c) = DocOwner THEN "owner" ELSE "editor"]
  /\ sendQueue = [c \in Clients |-> <<>>]
  /\ inflightOp = [c \in Clients |-> NoOp]
  /\ sendBuffer = [c \in Clients |-> <<>>]
  /\ \E pair \in {q \in AcceptedPairs : IsAccepted(q)} :
       inbox \in [Clients -> Arrivals(pair)]
  /\ budget = [edits |-> 0, drops |-> 0, shares |-> 0]
  /\ applied = [c \in Clients |-> {}]
  /\ opSeen = [k \in OpIds |-> {}]
  /\ unacked = [c \in Clients |-> {}]
  /\ ackLog = {}
  /\ procLog = {}
  /\ savedLog = {}
  /\ obs = [c \in Clients |-> [NewObs EXCEPT !.last = 1]]
  /\ now = CURSOR_THROTTLE_MS
  /\ lastCursorUpdate = [i \in Instances |-> [u \in Users |-> 0]]
  /\ cursorLog = <<>>

\* the clients handle what arrives
NextApply == \E c \in Clients : ClientReceive(c)

SpecApply == InitApply /\ [][NextApply]_vars

\* C11: two clients that start from the same content and receive the same
\* accepted operations, in any interleaving, hold identical content once each
\* has applied all of them.
C11_SameOperationsSameContent ==
  (\A c \in Clients : inbox[c] = <<>>) => content["c1"] = content["c2"]

\* ----------------------------------------------------- fan-out while joining
\* c1 connects to i1, loses its connection and connects again before the server
\* has noticed the loss, while c2, joined on i2, types at the start of the text
NextFan ==
  \/ Connect("c1")
  \/ ClientDrop("c1")
  \/ \E position \in {0} : SendInsert("c2", position)
  \/ JoinStep
  \/ ServerStep

SpecFan == InitHalf /\ [][NextFan]_vars

\* the remote_operation events on their way to a client
RemotesTo(c) == {k \in 1..Len(inbox[c]) : inbox[c][k].event = "remote_operation"}

\* C12: a session is emitted remote_operation for an accepted operation once,
\* not twice, and the session that sent an operation is emitted no
\* remote_operation for it.
C12_FanOutOnce ==
  \A c \in Clients :
    /\ \A j, k \in RemotesTo(c) : inbox[c][j].operation.id = inbox[c][k].operation.id => j = k
    /\ \A k \in RemotesTo(c) : inbox[c][k].operation.id \notin unacked[c]

\* C15: after any number of join_document events on an instance, also
\* concurrent ones, the instance has one message handler subscribed for doc:<id>
\* and one for presence:<id>, not more.
C15_SubscribeOnce ==
  \A i \in Instances : \A ch \in Channels : redisListeners[i][ch] <= 1

\* C13: in a room on one instance, for the operations accepted on that
\* instance, a remote_operation with a lower version is emitted to a session
\* before one with a higher version.
C13_EmittedInVersionOrder ==
  \A c \in Clients : \A j, k \in RemotesTo(c) :
    j < k => inbox[c][j].version <= inbox[c][k].version

\* the client handles, in this step, a remote_operation whose version is not
\* above the version it knows
StaleRemote(c) ==
  /\ connected[c] /\ inbox[c] # <<>>
  /\ Head(inbox[c]).event = "remote_operation"
  /\ Head(inbox[c]).version <= version[c]
  /\ inbox'[c] = Tail(inbox[c]) /\ connected'[c]

\* C14: a remote_operation whose version is less than or equal to the version
\* the client knows is ignored: the client's content and version stay as they
\* are.
C14_StaleRemoteIgnored ==
  [][\A c \in Clients : StaleRemote(c) =>
        content'[c] = content[c] /\ version'[c] = version[c]]_vars


\* every session that joined the room on instance i has gone: its socket is
\* disconnected and out of the room, and the server has run all of the
\* instance's handlers, handleUserLeave among them, to their end
AllLeft(i) ==
  /\ \E s \in sockDocId : inst[s.c] = i
  /\ \A s \in liveSocks : inst[s.c] # i
  /\ rooms[i] = {}
  /\ \A h \in handlers : InstOf(h) # i

\* C16: once every session that joined on an instance has left, the instance
\* holds no operation buffer and no user map for the document, the users that
\* joined there have no presence entry, and the instance is not subscribed to
\* the document's operation and presence channels
C16_RoomCleanedUp ==
  \A i \in Instances : AllLeft(i) =>
    /\ ~operationBuffers[i].present
    /\ ~activeUsers[i].present
    /\ \A s \in sockDocId : inst[s.c] = i => UserOf(s.c) \notin presence
    /\ activeSubscriptions[i] = {}
    /\ \A ch \in Channels : redisListeners[i][ch] = 0


\* both clients on one instance delete the first character
NextNoop ==
  \/ \E c \in Clients : \E position \in {0} : \E length \in {1} : SendDelete(c, position, length)
  \/ ServerStep

SpecNoop == InitSame /\ [][NextNoop]_vars

\* processOperation returns for h, whose operation the transformation against
\* the missed operations has made a noop
CollapsesToNoop(h) ==
  /\ Resume(h, "op", "oFetch")
  /\ h.op.type \in {"insert", "delete"}
  /\ TransformMissed(h.op, document, getBuffer(InstOf(h)).entries).op.type = "noop"
  /\ h \notin handlers'

\* C17: a processOperation call whose operation collapses to noop leaves the
\* record (content, version, version history) and the operation buffer as they
\* are, writes no snapshot and saves nothing, and the sender is acknowledged
\* with the version of the record and the noop operation
C17_NoopChangesNothing ==
  [][\A h \in handlers : CollapsesToNoop(h) =>
       /\ document' = document
       /\ operationBuffers' = operationBuffers
       /\ savedLog' = savedLog
       /\ \A g \in handlers' : g.sock # h.sock \/ g.op.id # h.op.id
       /\ \E a \in ackLog' \ ackLog :
            a.id = h.op.id /\ a.version = document.version /\ a.operation.type = "noop"
       /\ Reaches(h.sock) =>
            /\ inbox'[h.sock.c] # <<>>
            /\ LET m == inbox'[h.sock.c][Len(inbox'[h.sock.c])]
               IN m.event = "operation_ack" /\ m.version = document'.version
                  /\ m.operation.type = "noop"]_vars

\* a delete has been acknowledged as a noop after the transformation against
\* the other client's delete, and the record is at the version of the ack
C17_Witness ==
  \E a \in ackLog :
    /\ a.operation.type = "noop"
    /\ a.version = document.version
    /\ \E p \in procLog : p.id = a.id /\ p.noop /\ p.against # {}
    /\ Len(document.versionHistory) = 1


\* ------------------------------------------------ transformOperation alone
\* the largest position and the largest length (of a text or of a deleted
\* range) of the operations transformOperation is applied to
MaxPosition == 3
MaxLength == 3

\* the operations with a position and a length within the bounds; a noop is
\* what transformOperation makes of a delete: a position and the length 0
BoundedOps(base, id) ==
  {[NoOp EXCEPT !.type = "insert", !.position = p, !.text = [k \in 1..n |-> "a"],
                !.baseVersion = base, !.id = id] : p \in 0..MaxPosition, n \in 1..MaxLength}
  \cup {[NoOp EXCEPT !.type = "delete", !.position = p, !.length = n,
                     !.baseVersion = base, !.id = id] : p \in 0..MaxPosition, n \in 1..MaxLength}
  \cup {[NoOp EXCEPT !.type = "noop", !.position = p,
                     !.baseVersion = base, !.id = id] : p \in 0..MaxPosition}

\* a call transformOperation(opA, opB) about to be made: opA is an operation of
\* base version 1, opB a buffered operation of base version 2
InitTransform ==
  /\ document = [content |-> InitContent, version |-> 1, ids |-> {}, versionHistory |-> <<>>, exists |-> TRUE,
                 owner |-> DocOwner, sharedWith |-> [u \in {"u2"} |-> "editor"]]
  /\ presence = {}
  /\ pubq = [i \in Instances |-> <<>>]
  /\ busq = [i \in Instances |-> <<>>]
  /\ redisListeners = [i \in Instances |-> [ch \in Channels |-> 0]]
  /\ activeSubscriptions = [i \in Instances |-> {}]
  /\ activeUsers = [i \in Instances |-> [present |-> FALSE, gen |-> 0, members |-> {}]]
  /\ orphanUsers = [i \in Instances |-> {}]
  /\ operationBuffers = [i \in Instances |-> [present |-> FALSE, gen |-> 0, entries |-> <<>>]]
  /\ rooms = [i \in Instances |-> {}]
  /\ sockDocId = {}
  /\ liveSocks = {}
  /\ \E opA \in BoundedOps(1, 1) : \E opB \in BoundedOps(2, 2) :
       handlers = {[Handler("transform", Sock("c1", 0), "call", opA) EXCEPT !.tOp = opB]}
  /\ inst = [c \in Clients |-> "i1"]
  /\ connected = [c \in Clients |-> FALSE]
  /\ epoch = [c \in Clients |-> 0]
  /\ content = [c \in Clients |-> <<>>]
  /\ version = [c \in Clients |-> 0]
  /\ role = [c \in Clients |-> "none"]
  /\ sendQueue = [c \in Clients |-> <<>>]
  /\ inflightOp = [c \in Clients |-> NoOp]
  /\ sendBuffer = [c \in Clients |-> <<>>]
  /\ inbox = [c \in Clients |-> <<>>]
  /\ budget = [edits |-> 0, drops |-> 0, shares |-> 0]
  /\ applied = [c \in Clients |-> {}]
  /\ opSeen = [k \in OpIds |-> {}]
  /\ unacked = [c \in Clients |-> {}]
  /\ ackLog = {}
  /\ procLog = {}
  /\ savedLog = {}
  /\ obs = [c \in Clients |-> NewObs]
  /\ now = CURSOR_THROTTLE_MS
  /\ lastCursorUpdate = [i \in Instances |-> [u \in Users |-> 0]]
  /\ cursorLog = <<>>

\* the call is made; procLog keeps the operands and the operation returned
Transform(h) ==
  /\ Resume(h, "transform", "call")
  /\ procLog' = procLog \cup
       {[opA |-> h.op, opB |-> h.tOp, transformed |-> transformOperation(h.op, h.tOp)]}
  /\ handlers' = handlers \ {h}
  /\ UNCHANGED <<cursorVars, storeVars, activeSubscriptions, activeUsers, orphanUsers, operationBuffers,
                 rooms, sockDocId, liveSocks, inst, connected, epoch, hookVars, inbox,
                 budget, applied, opSeen, unacked, ackLog, savedLog, obs>>

NextTransform == \E h \in handlers : Transform(h)

SpecTransform == InitTransform /\ [][NextTransform]_vars

\* C18: transformOperation(op, noop) of an insert or delete op returns an
\* operation equal to op: same type, position, text, length and baseVersion
C18_TransformIdentity ==
  \A r \in procLog :
    (r.opA.type \in {"insert", "delete"} /\ r.opB.type = "noop") =>
      /\ r.transformed.type = r.opA.type
      /\ r.transformed.position = r.opA.position
      /\ r.transformed.text = r.opA.text
      /\ r.transformed.length = r.opA.length
      /\ r.transformed.baseVersion = r.opA.baseVersion

\* a delete further on in the text has been transformed against a noop
C18_Witness ==
  \E r \in procLog :
    /\ r.opA.type = "delete" /\ r.opA.position = 2 /\ r.opA.length = 2
    /\ r.opB.type = "noop" /\ r.opB.position = 1
    /\ r.transformed.type = "delete"


\* the table of section 4.1 for insert/insert and delete/insert: a moves right
\* by the length of b's text iff b.position <= a.position
TableShiftRight(a, b) ==
  IF b.position <= a.position THEN [a EXCEPT !.position = a.position + Len(b.text)] ELSE a

\* the table of section 4.1 for delete/delete
TableDeleteDelete(a, b) ==
  LET overlap == Max(0, Min(a.position + a.length, b.position + b.length)
                          - Max(a.position, b.position))
  IN IF b.position >= a.position + a.length THEN a
     ELSE IF b.position + b.length <= a.position
     THEN [a EXCEPT !.position = a.position - b.length]
     ELSE [a EXCEPT !.length = a.length - overlap,
                    !.position = Min(a.position, b.position),
                    !.type = IF a.length - overlap <= 0 THEN "noop" ELSE "delete"]

\* C19: for insert/insert, delete/insert and delete/delete pairs
\* transformOperation(a, b) is what the table of section 4.1 gives: a shift
\* right by len(b.text) iff b.position <= a.position (a tie shifts a), and for
\* two deletes a unchanged, shifted left by b.length, or shortened by the
\* overlap at the smaller position, a noop when nothing is left
C19_TransformTable ==
  \A r \in procLog :
    /\ (r.opB.type = "insert" /\ r.opA.type \in {"insert", "delete"}) =>
         r.transformed = TableShiftRight(r.opA, r.opB)
    /\ (r.opB.type = "delete" /\ r.opA.type = "delete") =>
         r.transformed = TableDeleteDelete(r.opA, r.opB)

\* a delete has been transformed against a delete of a range inside its own
C19_Witness ==
  \E r \in procLog :
    /\ r.opA.type = "delete" /\ r.opA.position = 1 /\ r.opA.length = 3
    /\ r.opB.type = "delete" /\ r.opB.position = 2 /\ r.opB.length = 1
    /\ r.transformed.type = "delete" /\ r.transformed.position = 1
    /\ r.transformed.length = 2

\* C20: for an insert a and a delete b, transformOperation(a, b) has the
\* position a.position - b.length when b.position + b.length <= a.position,
\* b.position when b.position < a.position < b.position + b.length, and
\* a.position otherwise
C20_InsertAgainstDelete ==
  \A r \in procLog :
    (r.opA.type = "insert" /\ r.opB.type = "delete") =>
      r.transformed.position =
        IF r.opB.position + r.opB.length <= r.opA.position
        THEN r.opA.position - r.opB.length
        ELSE IF r.opB.position < r.opA.position /\ r.opA.position < r.opB.position + r.opB.length
        THEN r.opB.position
        ELSE r.opA.position

\* an insert inside a deleted range has been moved to the start of the range
C20_Witness ==
  \E r \in procLog :
    /\ r.opA.type = "insert" /\ r.opA.position = 2
    /\ r.opB.type = "delete" /\ r.opB.position = 1 /\ r.opB.length = 3
    /\ r.transformed.position = 1


\* --------------------------------- a delete transformed against an insert
\* the shared base content of the two operations
BaseText == <<"x", "y", "z">>

\* a delete opA and an insert opB, both made on BaseText; opB is accepted first
InitDeleteInsert ==
  /\ document = [content |-> BaseText, version |-> 1, ids |-> {}, versionHistory |-> <<>>, exists |-> TRUE,
                 owner |-> DocOwner, sharedWith |-> [u \in {"u2"} |-> "editor"]]
  /\ presence = {}
  /\ pubq = [i \in Instances |-> <<>>]
  /\ busq = [i \in Instances |-> <<>>]
  /\ redisListeners = [i \in Instances |-> [ch \in Channels |-> 0]]
  /\ activeSubscriptions = [i \in Instances |-> {}]
  /\ activeUsers = [i \in Instances |-> [present |-> FALSE, gen |-> 0, members |-> {}]]
  /\ orphanUsers = [i \in Instances |-> {}]
  /\ operationBuffers = [i \in Instances |-> [present |-> FALSE, gen |-> 0, entries |-> <<>>]]
  /\ rooms = [i \in Instances |-> {}]
  /\ sockDocId = {}
  /\ liveSocks = {}
  /\ \E opA \in {d \in BoundedOps(1, 1) :
                   d.type = "delete" /\ d.position + d.length <= Len(BaseText)} :
       \E opB \in {n \in BoundedOps(1, 2) :
                     n.type = "insert" /\ n.position <= Len(BaseText)} :
         handlers = {[Handler("transform", Sock("c1", 0), "first", opA) EXCEPT !.tOp = opB]}
  /\ inst = [c \in Clients |-> "i1"]
  /\ connected = [c \in Clients |-> FALSE]
  /\ epoch = [c \in Clients |-> 0]
  /\ content = [c \in Clients |-> <<>>]
  /\ version = [c \in Clients |-> 0]
  /\ role = [c \in Clients |-> "none"]
  /\ sendQueue = [c \in Clients |-> <<>>]
  /\ inflightOp = [c \in Clients |-> NoOp]
  /\ sendBuffer = [c \in Clients |-> <<>>]
  /\ inbox = [c \in Clients |-> <<>>]
  /\ budget = [edits |-> 0, drops |-> 0, shares |-> 0]
  /\ applied = [c \in Clients |-> {}]
  /\ opSeen = [k \in OpIds |-> {}]
  /\ unacked = [c \in Clients |-> {}]
  /\ ackLog = {}
  /\ procLog = {}
  /\ savedLog = {}
  /\ obs = [c \in Clients |-> NewObs]
  /\ now = CURSOR_THROTTLE_MS
  /\ lastCursorUpdate = [i \in Instances |-> [u \in Users |-> 0]]
  /\ cursorLog = <<>>

\* opB, of the base version of the record, is applied as it is
ApplyFirst(h) ==
  /\ Resume(h, "transform", "first")
  /\ document' = [document EXCEPT !.content = applyOperation(@, h.tOp), !.version = @ + 1]
  /\ handlers' = (handlers \ {h}) \cup {[h EXCEPT !.pc = "second"]}
  /\ UNCHANGED <<cursorVars, presence, pubq, busq, redisListeners, activeSubscriptions, activeUsers,
                 orphanUsers, operationBuffers, rooms, sockDocId, liveSocks, inst, connected,
                 epoch, hookVars, inbox, budget, applied, opSeen, unacked, logVars, obs>>

\* opA is transformed against opB and applied
TransformApply(h) ==
  /\ Resume(h, "transform", "second")
  /\ LET transformed == transformOperation(h.op, h.tOp)
     IN /\ document' = [document EXCEPT !.content = applyOperation(@, transformed),
                                         !.version = @ + 1]
        /\ procLog' = procLog \cup {[opA |-> h.op, opB |-> h.tOp, transformed |-> transformed]}
  /\ handlers' = handlers \ {h}
  /\ UNCHANGED <<cursorVars, presence, pubq, busq, redisListeners, activeSubscriptions, activeUsers,
                 orphanUsers, operationBuffers, rooms, sockDocId, liveSocks, inst, connected,
                 epoch, hookVars, inbox, budget, applied, opSeen, unacked, ackLog, savedLog,
                 obs>>

NextDeleteInsert ==
  \/ \E h \in handlers : ApplyFirst(h)
  \/ \E h \in handlers : TransformApply(h)

SpecDeleteInsert == InitDeleteInsert /\ [][NextDeleteInsert]_vars

\* the characters of BaseText in the range of the delete a
Targeted(a) == {BaseText[k] : k \in (a.position + 1)..(a.position + a.length)}

\* BaseText with b's text inserted and the characters a targeted taken out
WithoutTargeted(a, b) ==
  LET Kept(ch) == ch \notin Targeted(a)
  IN SelectSeq(applyOperation(BaseText, b), Kept)

\* C21: a delete a transformed against an insert b accepted first keeps a's
\* length, and applied after b it removes exactly the characters a targeted in
\* the base content, none of those b inserted
C21_DeleteSparesInsertedText ==
  \A r \in procLog :
    /\ r.transformed.length = r.opA.length
    /\ document.content = WithoutTargeted(r.opA, r.opB)


\* ------------------------------------------------ the shape of an operation
\* operation events with and without a text, and with a length that is absent
\* (0), positive or negative
ShapeOperations ==
  {[NoOp EXCEPT !.type = "insert", !.text = t, !.baseVersion = 1] : t \in {<<>>, <<"z">>}}
  \cup {[NoOp EXCEPT !.type = "delete", !.position = 1, !.length = l, !.baseVersion = 1] :
          l \in {-1, 0, 1}}

NextShape ==
  \/ \E c \in Clients : \E operation \in ShapeOperations : EmitOperation(c, operation)
  \/ ServerStep

SpecShape == InitSame /\ [][NextShape]_vars

\* the shape constraints at acceptance
WellShaped(operation) ==
  /\ operation.type = "delete" => operation.length >= 1
  /\ operation.type = "insert" => operation.text # <<>>

\* the operation handler of h goes on after its checks, or ends there
PastChecks(h) == Resume(h, "op", "oPerm") /\ h \notin handlers'

\* C22: every operation the server applies and acknowledges has a length >= 1
\* (delete) or a non-empty text (insert); an operation without that shape is
\* answered with error_message, the handler ends, and the record, its history
\* and the operation buffer stay as they are
C22_ShapeChecked ==
  [][/\ \A a \in ackLog' : WellShaped(a.operation)
     /\ \A h \in handlers : (PastChecks(h) /\ ~WellShaped(h.op)) =>
          /\ \A g \in handlers' : g.op.id # h.op.id
          /\ inbox'[h.sock.c] = Append(inbox[h.sock.c], ErrorMsg)
          /\ document' = document
          /\ operationBuffers' = operationBuffers]_vars


\* -------------------------------------------------- permissionService alone
\* the documents of any owner and any share entries
AccessDocs ==
  {[content |-> InitContent, version |-> 1, ids |-> {}, versionHistory |-> <<>>, exists |-> TRUE,
    owner |-> o, sharedWith |-> sw] :
     o \in Users, sw \in UNION {[S -> ShareRoles] : S \in SUBSET Users}}
AccessLevels == {"read", "edit", "owner"}

\* a call getDocumentWithAccess(id, userId, requiredLevel) about to be made,
\* for a document that is in the store or is not
InitAccess ==
  /\ document = [content |-> InitContent, version |-> 1, ids |-> {}, versionHistory |-> <<>>, exists |-> TRUE,
                 owner |-> DocOwner, sharedWith |-> [u \in {"u2"} |-> "editor"]]
  /\ presence = {}
  /\ pubq = [i \in Instances |-> <<>>]
  /\ busq = [i \in Instances |-> <<>>]
  /\ redisListeners = [i \in Instances |-> [ch \in Channels |-> 0]]
  /\ activeSubscriptions = [i \in Instances |-> {}]
  /\ activeUsers = [i \in Instances |-> [present |-> FALSE, gen |-> 0, members |-> {}]]
  /\ orphanUsers = [i \in Instances |-> {}]
  /\ operationBuffers = [i \in Instances |-> [present |-> FALSE, gen |-> 0, entries |-> <<>>]]
  /\ rooms = [i \in Instances |-> {}]
  /\ sockDocId = {}
  /\ liveSocks = {}
  /\ \E found \in {{}} \cup {{d} : d \in AccessDocs} : \E u \in Users : \E l \in AccessLevels :
       handlers = {[kind |-> "access", pc |-> "call", found |-> found, userId |-> u,
                    requiredLevel |-> l]}
  /\ inst = [c \in Clients |-> "i1"]
  /\ connected = [c \in Clients |-> FALSE]
  /\ epoch = [c \in Clients |-> 0]
  /\ content = [c \in Clients |-> <<>>]
  /\ version = [c \in Clients |-> 0]
  /\ role = [c \in Clients |-> "none"]
  /\ sendQueue = [c \in Clients |-> <<>>]
  /\ inflightOp = [c \in Clients |-> NoOp]
  /\ sendBuffer = [c \in Clients |-> <<>>]
  /\ inbox = [c \in Clients |-> <<>>]
  /\ budget = [edits |-> 0, drops |-> 0, shares |-> 0]
  /\ applied = [c \in Clients |-> {}]
  /\ opSeen = [k \in OpIds |-> {}]
  /\ unacked = [c \in Clients |-> {}]
  /\ ackLog = {}
  /\ procLog = {}
  /\ savedLog = {}
  /\ obs = [c \in Clients |-> NewObs]
  /\ now = CURSOR_THROTTLE_MS
  /\ lastCursorUpdate = [i \in Instances |-> [u \in Users |-> 0]]
  /\ cursorLog = <<>>

\* the call is made, and getUserRole, canRead and canEdit on the document
\* found; procLog keeps the arguments and the answers
Access(h) ==
  /\ Resume(h, "access", "call")
  /\ procLog' = procLog \cup
       {[found |-> h.found, userId |-> h.userId, requiredLevel |-> h.requiredLevel,
         access |-> getDocumentWithAccess(h.found, h.userId, h.requiredLevel),
         roles |-> {getUserRole(d, h.userId) : d \in h.found},
         canRead |-> {canRead(d, h.userId) : d \in h.found},
         canEdit |-> {canEdit(d, h.userId) : d \in h.found}]}
  /\ handlers' = handlers \ {h}
  /\ UNCHANGED <<cursorVars, storeVars, activeSubscriptions, activeUsers, orphanUsers, operationBuffers,
                 rooms, sockDocId, liveSocks, inst, connected, epoch, hookVars, inbox,
                 budget, applied, opSeen, unacked, ackLog, savedLog, obs>>

NextAccess == \E h \in handlers : Access(h)

SpecAccess == InitAccess /\ [][NextAccess]_vars

\* the role the claim gives the user on the document
ClaimedRole(doc, userId) ==
  IF doc.owner = userId THEN "owner"
  ELSE IF \E u \in DOMAIN doc.sharedWith : u = userId THEN doc.sharedWith[userId]
  ELSE "none"

\* C23: getUserRole is owner iff the owner is the user, otherwise the role of
\* the user's share entry, otherwise none; canRead holds exactly for owner,
\* editor, commenter and viewer, canEdit exactly for owner and editor;
\* getDocumentWithAccess with level edit succeeds exactly for owner and
\* editor, with level owner exactly for owner, and fails with not-found for
\* an absent document and with forbidden otherwise
C23_RolesAndCapabilities ==
  \A r \in procLog :
    /\ \A d \in r.found :
         LET claimed == ClaimedRole(d, r.userId)
         IN /\ r.roles = {claimed}
            /\ r.canRead = {claimed \in {"owner", "editor", "commenter", "viewer"}}
            /\ r.canEdit = {claimed \in {"owner", "editor"}}
            /\ r.requiredLevel = "edit" =>
                 r.access.status = IF claimed \in {"owner", "editor"} THEN 200 ELSE 403
            /\ r.requiredLevel = "owner" =>
                 r.access.status = IF claimed = "owner" THEN 200 ELSE 403
            /\ r.access.status = 200 => r.access.role = claimed
    /\ r.found = {} => r.access.status = 404

\* the owner level has been refused to an editor of a document owned by the
\* other user
C23_Witness ==
  \E r \in procLog : \E d \in r.found :
    /\ d.owner # r.userId
    /\ r.roles = {"editor"}
    /\ r.requiredLevel = "owner"
    /\ r.access.status = 403
    /\ r.canEdit = {TRUE}


\* C24: each accepted operation that is not a noop appends exactly one entry
\* to the version history, holding the content and the version the record had
\* before the change; nothing else changes the history; the history never
\* holds more than MAX_HISTORY_SIZE entries, the oldest being dropped first
C24_HistoryOfPreChangeStates ==
  [][LET old == document.versionHistory
         new == document'.versionHistory
     IN /\ Len(new) <= MAX_HISTORY_SIZE
        /\ savedLog' = savedLog => new = old
        /\ savedLog' # savedLog =>
             /\ new # <<>>
             /\ new[Len(new)].version = document.version
             /\ new[Len(new)].contentSnapshot = document.content
             /\ SubSeq(new, 1, Len(new) - 1) =
                  IF Len(old) < MAX_HISTORY_SIZE THEN old ELSE Tail(old)]_vars


\* C25: the operation buffer of an instance holds at most MAX_BUFFER_SIZE
\* entries, the versions of its entries are strictly increasing, and the
\* version of each entry is the version the record got by the save of the
\* entry's operation
C25_BufferBoundedAndMonotone ==
  \A i \in Instances :
    LET entries == operationBuffers[i].entries
    IN /\ Len(entries) <= MAX_BUFFER_SIZE
       /\ \A j, k \in 1..Len(entries) : j < k => entries[j].version < entries[k].version
       /\ \A k \in 1..Len(entries) :
            [version |-> entries[k].version, id |-> entries[k].operation.id] \in savedLog


\* no join_document and no handleUserLeave is in progress on instance i
NoJoinOrLeave(i) ==
  \A h \in handlers : InstOf(h) = i => h.kind \notin {"join", "leave"}

\* C26: whenever no join or leave handler is in progress on an instance, the
\* instance is subscribed to the document's operation and presence channels
\* if and only if its user map for the document is non-empty
C26_SubscribedIffUsers ==
  \A i \in Instances : NoJoinOrLeave(i) =>
    \A ch \in Channels :
      (ch \in activeSubscriptions[i] /\ redisListeners[i][ch] > 0)
        <=> (activeUsers[i].present /\ activeUsers[i].members # {})


\* ------------------------------------------------ joins that are refused
\* nobody is connected; the document is shared with the other user or is not
InitShared ==
  /\ document \in {[content |-> InitContent, version |-> 1, ids |-> {},
                    versionHistory |-> <<>>, exists |-> TRUE, owner |-> DocOwner,
                    sharedWith |-> sw] : sw \in {[u \in {"u2"} |-> "editor"], <<>>}}
  /\ presence = {}
  /\ pubq = [i \in Instances |-> <<>>]
  /\ busq = [i \in Instances |-> <<>>]
  /\ redisListeners = [i \in Instances |-> [ch \in Channels |-> 0]]
  /\ activeSubscriptions = [i \in Instances |-> {}]
  /\ activeUsers = [i \in Instances |-> [present |-> FALSE, gen |-> 0, members |-> {}]]
  /\ orphanUsers = [i \in Instances |-> {}]
  /\ operationBuffers = [i \in Instances |-> [present |-> FALSE, gen |-> 0, entries |-> <<>>]]
  /\ rooms = [i \in Instances |-> {}]
  /\ sockDocId = {}
  /\ liveSocks = {}
  /\ handlers = {}
  /\ inst \in {f \in [Clients -> Instances] : f["c1"] = "i1"}
  /\ connected = [c \in Clients |-> FALSE]
  /\ epoch = [c \in Clients |-> 0]
  /\ content = [c \in Clients |-> <<>>]
  /\ version = [c \in Clients |-> 0]
  /\ role = [c \in Clients |-> "none"]
  /\ sendQueue = [c \in Clients |-> <<>>]
  /\ inflightOp = [c \in Clients |-> NoOp]
  /\ sendBuffer = [c \in Clients |-> <<>>]
  /\ inbox = [c \in Clients |-> <<>>]
  /\ budget = [edits |-> 0, drops |-> 0, shares |-> 0]
  /\ applied = [c \in Clients |-> {}]
  /\ opSeen = [k \in OpIds |-> {}]
  /\ unacked = [c \in Clients |-> {}]
  /\ ackLog = {}
  /\ procLog = {}
  /\ savedLog = {}
  /\ obs = [c \in Clients |-> NewObs]
  /\ now = CURSOR_THROTTLE_MS
  /\ lastCursorUpdate = [i \in Instances |-> [u \in Users |-> 0]]
  /\ cursorLog = <<>>

\* the clients connect and join while the owner may delete the document
NextDenied ==
  \/ \E c \in Clients : Connect(c)
  \/ DeleteDocument
  \/ JoinStep
  \/ \E c \in Clients : ClientReceive(c)

SpecDenied == InitShared /\ [][NextDenied]_vars

\* join_document of h is resumed after the read check, which fails: the
\* document is missing or the user has no role on it
ReadDenied(h) ==
  /\ Resume(h, "join", "jRead")
  /\ h \notin handlers'
  /\ \/ ~document.exists
     \/ /\ document.owner # UserIdOf(h)
        /\ UserIdOf(h) \notin DOMAIN document.sharedWith

\* C27: a join_document that fails the read check emits error_message and
\* has no other effect: the socket is not added to the room or the user map,
\* no presence entry is written, nothing is subscribed, nothing is published,
\* and the handler ends without a document_state
C27_DeniedJoinHasNoEffect ==
  [][\A h \in handlers : ReadDenied(h) =>
       /\ inbox' = [inbox EXCEPT ![h.sock.c] =
                      IF Reaches(h.sock) THEN Append(@, ErrorMsg) ELSE @]
       /\ \A g \in handlers' : g.sock # h.sock
       /\ rooms' = rooms
       /\ sockDocId' = sockDocId
       /\ activeUsers' = activeUsers
       /\ presence' = presence
       /\ activeSubscriptions' = activeSubscriptions
       /\ redisListeners' = redisListeners
       /\ pubq' = pubq]_vars

\* the join of a user without a role has been refused: its session has the error_message
\* and is in no room and no user map, and the instance it reaches has no
\* subscription
C27_Witness ==
  /\ document.exists /\ DOMAIN document.sharedWith = {}
  /\ connected["c2"]
  /\ inbox["c2"] = <<ErrorMsg>>
  /\ \A h \in handlers : h.sock.c # "c2"
  /\ CurSock("c2") \notin rooms[inst["c2"]]
  /\ inst["c2"] = "i2" /\ activeSubscriptions["i2"] = {}
  /\ "u2" \notin presence


\* ---------------------------------------------- publish commands that fail
\* both clients type at the start of the text; a publish command may fail
NextNoBus ==
  \/ \E c \in Clients : \E position \in {0} : SendInsert(c, position)
  \/ \E i \in Instances : PublishFails(i)
  \/ ServerStep

SpecNoBus == InitJoined /\ [][NextNoBus]_vars

\* the publish command of instance i for its next message fails
FailedPublish(i) ==
  /\ pubq[i] # <<>>
  /\ pubq'[i] = Tail(pubq[i])
  /\ busq' = busq

\* C28: when the publish of an accepted operation fails, the operation stays
\* saved at its version (the record, the history and the buffer are as they
\* were), the operation_ack and the remote_operation emitted for it stay as
\* they are, and no error_message or other event is emitted
C28_PublishFailureSwallowed ==
  [][\A i \in Instances : FailedPublish(i) =>
       LET m == Head(pubq[i]).payload
       IN /\ \E a \in ackLog' : a.id = m.operation.id /\ a.version = m.version
          /\ m.operation.type # "noop" =>
               [version |-> m.version, id |-> m.operation.id] \in savedLog'
          /\ document' = document
          /\ operationBuffers' = operationBuffers
          /\ inbox' = inbox
          /\ handlers' = handlers]_vars

\* the publish of c1's operation has failed: nothing is on its way, c1 has
\* its ack and the record holds the operation at version 2, while c2 on the
\* other instance has not been sent it
C28_Witness ==
  /\ inst["c2"] = "i2"
  /\ \A i \in Instances : pubq[i] = <<>> /\ busq[i] = <<>>
  /\ \A c \in Clients : inbox[c] = <<>>
  /\ handlers = {}
  /\ ackLog = {a \in ackLog : a.id = 1 /\ a.version = 2} /\ ackLog # {}
  /\ savedLog = {[version |-> 2, id |-> 1]}
  /\ document.version = 2 /\ document.ids = {1}
  /\ unacked["c1"] = {} /\ version["c1"] = 2
  /\ applied["c2"] = {} /\ version["c2"] = 1


\* ------------------------------------------ processOperation calls that fail
\* both clients type at the start of the text; the owner may delete the
\* document and a save may fail
NextStoreFails ==
  \/ \E c \in Clients : \E position \in {0} : SendInsert(c, position)
  \/ DeleteDocument
  \/ \E h \in handlers : OpSaveFails(h)
  \/ ServerStep

SpecStoreFails == InitSame /\ [][NextStoreFails]_vars

\* processOperation fails for the operation of h: it finds no document, or
\* its save does not change the record
ProcessFails(h) ==
  /\ h.kind = "op" /\ h \notin handlers'
  /\ \/ h.pc = "oFetch" /\ ~document.exists
     \/ h.pc = "oSave" /\ document' = document

\* C29: when processOperation fails because the document is absent or the
\* save fails, the sender is emitted error_message and nothing else happens:
\* no operation_ack, no remote_operation to anybody, no publish command, no
\* entry in the operation buffer, and the handler has ended
C29_FailedOperationOnlyErrors ==
  [][\A h \in handlers : ProcessFails(h) =>
       /\ inbox' = [inbox EXCEPT ![h.sock.c] =
                      IF Reaches(h.sock) THEN Append(@, ErrorMsg) ELSE @]
       /\ ackLog' = ackLog
       /\ pubq' = pubq
       /\ \A i \in Instances : operationBuffers'[i].entries = operationBuffers[i].entries
       /\ savedLog' = savedLog
       /\ \A g \in handlers' : g.op.id # h.op.id]_vars

\* the save of an operation has failed: the operation was transformed, it is
\* neither acknowledged nor saved nor in the buffer, nothing is in progress,
\* and its sender has been emitted the error_message
C29_Witness ==
  /\ document.exists /\ document.version = 1
  /\ \E p \in procLog : p.id = 1
  /\ ackLog = {} /\ savedLog = {}
  /\ handlers = {}
  /\ \A i \in Instances : pubq[i] = <<>> /\ operationBuffers[i].entries = <<>>
  /\ \E c \in Clients : inbox[c] = <<ErrorMsg>> /\ 1 \in unacked[c]


\* ---------------------------------------------------------- cursor throttle
\* c1 connects, moves its cursor, loses its connection and connects again
NextCursor ==
  \/ Connect("c1")
  \/ ClientDrop("c1")
  \/ CursorMove("c1")
  \/ Tick
  \/ JoinStep
  \/ LeaveStep
  \/ \E c \in Clients : ClientReceive(c)

SpecCursor == InitHalf /\ [][NextCursor]_vars

\* C30: any two cursor_move events of one user on the document that are both
\* broadcast as cursor_moved are at least CURSOR_THROTTLE_MS apart
C30_CursorThrottle ==
  \A j, k \in 1..Len(cursorLog) :
    (j < k /\ cursorLog[j].userId = cursorLog[k].userId) =>
      cursorLog[k].time - cursorLog[j].time >= CURSOR_THROTTLE_MS

\* ------------------------------------------------- the client's send queue
\* the operation events that reach the server in this step from client c: the
\* handlers started for them
SentNow(c) == {h \in handlers' \ handlers : h.kind = "op" /\ h.pc = "oPerm" /\ h.sock.c = c}

\* the hook of client c handles document_state in this step
HandlesState(c) ==
  /\ connected[c] /\ inbox[c] # <<>> /\ Head(inbox[c]).event = "document_state"
  /\ connected'[c] /\ inbox'[c] = Tail(inbox[c])

\* C31: on document_state the client drops every queued operation and the
\* operation in flight and takes content and version from the message; no
\* operation enqueued before that document_state is sent afterwards
C31_StateClearsQueue ==
  [][\A c \in Clients :
       /\ HandlesState(c) =>
            /\ sendQueue'[c] = <<>> /\ inflightOp'[c] = NoOp
            /\ content'[c] = Head(inbox[c]).document.content
            /\ version'[c] = Head(inbox[c]).document.version
       /\ \A h \in SentNow(c) : h.op.id > obs'[c].stateId]_vars

\* a re-join has dropped a queued operation and the operation in flight
C31_Witness ==
  \E c \in Clients : /\ obs[c].cleared = 2 /\ obs[c].stateId = 2
                     /\ sendQueue[c] = <<>> /\ inflightOp[c] = NoOp

\* the hook of client c emits an operation event in this step
EmitsNow(c) == inflightOp'[c] # NoOp /\ inflightOp'[c] # inflightOp[c]

\* C32: every operation a client sends carries as baseVersion the version the
\* client knows at the moment of sending, and the queued operations are sent in
\* the order they were enqueued
C32_StampedAtSendTime ==
  [][\A c \in Clients :
       /\ EmitsNow(c) =>
            /\ inflightOp'[c].baseVersion = version'[c]
            /\ \A k \in 1..Len(sendQueue'[c]) : inflightOp'[c].id < sendQueue'[c][k].id
            /\ sendQueue[c] # <<>> => inflightOp'[c].id = Head(sendQueue[c]).id
       /\ \A h \in SentNow(c) : h.op.baseVersion = version'[c]
       /\ \A j, k \in 1..Len(sendQueue'[c]) : j < k => sendQueue'[c][j].id < sendQueue'[c][k].id]_vars

\* an operation enqueued at one version is in flight with a later one
C32_Witness ==
  \E c \in Clients : /\ inflightOp[c] # NoOp
                     /\ obs[c].enqAt < inflightOp[c].baseVersion
                     /\ inflightOp[c].baseVersion = version[c]

\* ----------------------------------------------------------- joining late
\* the session of c has handled its document_state and nothing was typed since
JoinedQuietly(c) ==
  /\ Joined(c) /\ role[c] # "none"
  /\ obs[c].stateId = budget.edits

\* C33: a joining session misses no accepted operation: once nothing is on its
\* way, the content of its document_state with the remote operations it was
\* sent afterwards is the stored content, and every operation saved is in it
C33_JoinMissesNothing ==
  \A c \in Clients : (Quiescent /\ JoinedQuietly(c)) =>
    /\ document.ids \subseteq applied[c]
    /\ content[c] = document.content

\* ------------------------------------------------ two sessions of one user
\* C34: while a session on an instance is still in the document's room, the
\* instance keeps its subscriptions and its operation buffer: no step that
\* leaves a session in the room unsubscribes the instance or clears the buffer
C34_KeptWhileJoined ==
  [][\A i \in Instances : (\E s \in rooms'[i] : s \in liveSocks') =>
       /\ activeSubscriptions[i] \subseteq activeSubscriptions'[i]
       /\ operationBuffers[i].present => /\ operationBuffers'[i].present
                                         /\ operationBuffers'[i].gen = operationBuffers[i].gen]_vars

\* ------------------------------------------------------- after disconnect
\* every session on instance i has disconnected and its handlers have ended
AllGone(i) ==
  /\ \E c \in Clients : inst[c] = i /\ epoch[c] > 0
  /\ \A s \in liveSocks : inst[s.c] # i
  /\ \A h \in handlers : InstOf(h) # i

\* C35: after a session has disconnected its user is in the user map of the
\* document no more because of it: with every session of the instance gone, the
\* user map of the instance holds no user
C35_NoEntryAfterDisconnect ==
  \A i \in Instances : AllGone(i) => ~(activeUsers[i].present /\ activeUsers[i].members # {})

\* ------------------------------------------------------ the queue drains
\* the server goes on with every handler it has started, Redis delivers, and
\* the clients handle the events they are sent
SpecAnswered == SpecStoreFails /\ WF_vars(ServerStep)

\* C36: when the server answers every operation it receives, every operation a
\* client has enqueued is eventually sent: a send queue that is not empty
\* becomes empty
C36_QueueDrains ==
  \A c \in Clients : (sendQueue[c] # <<>>) ~> (sendQueue[c] = <<>>)

\* ------------------------------------------------ operations of other types
\* operation events with a type of the session's choosing: an insert, a noop
\* and a type the server does not know
TypedOperations ==
  {[NoOp EXCEPT !.type = t, !.position = 0, !.text = <<"z">>, !.baseVersion = b] :
     t \in {"insert", "noop", "format"}, b \in {1, 2}}

NextTyped ==
  \/ \E c \in Clients : \E operation \in TypedOperations : EmitOperation(c, operation)
  \/ ServerStep

SpecTyped == InitSame /\ [][NextTyped]_vars

\* C37: the version changes only together with an insert or a delete: an
\* operation of another type never increases the stored version, writes no
\* history snapshot and is not appended to an operation buffer
C37_OnlyEditsChangeVersion ==
  [][/\ (document'.version # document.version
          \/ document'.versionHistory # document.versionHistory) =>
            \E h \in handlers \ handlers' :
              h.kind = "op" /\ h.pc = "oSave" /\ h.op.type \in {"insert", "delete"}
     /\ \A i \in Instances : \A k \in 1..Len(operationBuffers'[i].entries) :
          operationBuffers'[i].entries[k].operation.type \in {"insert", "delete"}]_vars

\* ------------------------------------------- sessions that have not joined
\* the clients connect and join, the join of a user without a role is refused,
\* and the sessions move their cursors
NextUnjoined ==
  \/ \E c \in Clients : Connect(c)
  \/ \E c \in Clients : CursorMove(c)
  \/ JoinStep
  \/ \E c \in Clients : ClientReceive(c)

SpecUnjoined == InitShared /\ [][NextUnjoined]_vars

\* C38: only a session that has joined the document and has not left it makes
\* the server deliver cursor_moved to the document's room: every cursor_moved
\* that went to a socket came from a session in the room
C38_OnlyJoinedReachTheRoom ==
  \A k \in 1..Len(cursorLog) : cursorLog[k].to # {} => cursorLog[k].joined

\* ------------------------------------------- the loop over missed operations
\* an insert or delete as the clients produce them: a position >= 0, a text
\* that is not empty, a length >= 1
WellFormed(operation) ==
  /\ operation.position >= 0
  /\ operation.type \in {"insert", "delete"}
  /\ operation.type = "insert" => operation.text # <<>>
  /\ operation.type = "delete" => operation.length >= 1

\* the turn of the loop made last, none before the first
LastTurn ==
  IF procLog = {} THEN [step |-> 0, first |-> NoOp] ELSE CHOOSE r \in procLog : TRUE

\* one turn of the loop of processOperation over the missed operations: the
\* operation is transformed against the next one, and the loop ends at a noop;
\* procLog keeps the last turn and the operation the loop started with
FoldStep(h) ==
  /\ Resume(h, "transform", "call")
  /\ WellFormed(h.tOp)
  /\ LET step == LastTurn.step + 1
         transformed == transformOperation(h.op, h.tOp)
     IN /\ procLog' = {[step |-> step, first |-> IF step = 1 THEN h.op ELSE LastTurn.first,
                        opA |-> h.op, opB |-> h.tOp, transformed |-> transformed]}
        /\ IF transformed.type = "noop" \/ step = MaxFold
           THEN handlers' = handlers \ {h}
           ELSE \E opB \in {o \in BoundedOps(2, 2) : WellFormed(o)} :
                  handlers' = (handlers \ {h}) \cup {[h EXCEPT !.op = transformed, !.tOp = opB]}
  /\ UNCHANGED <<cursorVars, storeVars, activeSubscriptions, activeUsers, orphanUsers, operationBuffers,
                 rooms, sockDocId, liveSocks, inst, connected, epoch, hookVars, inbox,
                 budget, applied, opSeen, unacked, ackLog, savedLog, obs>>

NextFold == \E h \in handlers : FoldStep(h)

SpecFold == InitTransform /\ [][NextFold]_vars

\* C39: transformation keeps operations well-formed: transformOperation(a, b)
\* of well-formed a and b, and the result of the loop over any sequence of
\* well-formed operations, is a noop or has a position >= 0, and as a delete a
\* length from 1 to a.length, as an insert the text of a
C39_TransformKeepsWellFormed ==
  \A r \in procLog : WellFormed(r.first) =>
    \/ r.transformed.type = "noop"
    \/ /\ r.transformed.type = r.first.type
       /\ r.transformed.position >= 0
       /\ r.transformed.type = "delete" =>
            r.transformed.length >= 1 /\ r.transformed.length <= r.first.length
       /\ r.transformed.type = "insert" => r.transformed.text = r.first.text

\* a delete has come out of the loop shorter than it went in, at another position
C39_Witness ==
  \E r \in procLog : /\ r.step = MaxFold /\ WellFormed(r.first)
                     /\ r.transformed.type = "delete"
                     /\ r.transformed.length < r.first.length
                     /\ r.transformed.position # r.first.position

====
